---- MODULE Spec2Model ----
(***************************************************************************)
(* A model of the layered triple store: the SimpleLayerBuilder commit      *)
(* pipeline over a stack of layers, the directory label store, the         *)
(* adjacency list builder and readers, the forward files of a base layer   *)
(* with the stream over them, and the PFC dictionary.                      *)
(*                                                                         *)
(* Strings are finite sequences of byte values, compared byte-wise.        *)
(* Ids are 1-based naturals; 0 stands for "no id" (Option::None).          *)
(***************************************************************************)
EXTENDS Integers, Sequences, FiniteSets, TLC

VARIABLES
    layers,      \* the committed layers, in commit order (a layer names its parent by index)
    builder,     \* the SimpleLayerBuilder being filled, or NoBuilder
    lastCommit,  \* what the last commit() computed and handed to the file builders
    labelFiles,  \* the label directory: for each label name its file
    handle,      \* the Label object each client holds from its last successful call
    pending,     \* for each client, the set_label_option it is in the middle of, if any
    won,         \* for each client, the expected Label of its last successful set_label_option
    lastOp,      \* the label store call that completed last
    stored,      \* for each label name, the Label the last successful create or set returned
    blobs,       \* the layer directories and how far the commit of each has come
    adj,         \* an AdjacencyListBuilder, the pairs pushed to it and its last push
    base,        \* the triple writer of a base layer builder in phase 2 and the triples added
    join,        \* a BaseTripleStream over forward files, and what it has yielded
    dict,        \* a PfcDictFileBuilder, its files and the strings added to it
    phase1,      \* the dictionary builders of a base layer builder in phase 1
    disk,        \* the directory of a DirectoryLayerStore and the last call on the store
    fin          \* one finalizing chain of futures: its files and how far it has run

layerVars == <<layers, builder, lastCommit>>
labelVars == <<labelFiles, handle, pending, won, lastOp, stored>>
storeVars == <<layerVars, labelVars, blobs>>
structVars == <<adj, base, join, dict, phase1, disk, fin>>
vars == <<layers, builder, lastCommit, labelFiles, handle, pending, won, lastOp, stored, blobs,
          adj, base, join, dict, phase1, disk, fin>>

-----------------------------------------------------------------------------
(* Bounds of the model *)

\* the number of layers committed in one behaviour
MaxLayers == 3
\* the number of add_* / remove_* calls made in one behaviour
MaxOps == 3
\* the highest version a label reaches
MaxVersion == 2
\* the largest left and right value pushed to an adjacency list builder
MaxLeft == 3
MaxRight == 2
\* the number of pairs pushed to an adjacency list builder
MaxPushes == 3
\* the node, predicate and object ids a base layer declares
MaxSubject == 3
MaxPredicate == 2
MaxObject == 2
\* the number of triples added to a base layer
MaxTriples == 4
\* the number of strings added to a dictionary
MaxStrings == 10
\* the number of triples of a layer whose files are joined with pending polls
MaxJoinTriples == 3
\* the number of entries the files handed to a join may lack at their end
MaxCut == 1
\* the number of polls of a stream that may be pending
MaxPolls == 5
\* the number of strings a builder followed from from_files to finalize is handed
MaxLifeStrings == 3
\* the number of different contents of a file in a layer directory
MaxData == 2

-----------------------------------------------------------------------------
(* Generic helpers *)

Range(s) == {s[i] : i \in 1..Len(s)}

\* byte-lexicographic order on strings (Ord for String / Vec<u8>)
RECURSIVE StrLess(_, _)
StrLess(a, b) ==
    IF b = <<>> THEN FALSE
    ELSE IF a = <<>> THEN TRUE
    ELSE IF Head(a) < Head(b) THEN TRUE
    ELSE IF Head(a) > Head(b) THEN FALSE
    ELSE StrLess(Tail(a), Tail(b))

\* position (1-based) of x in sequence s, 0 when absent
IndexOf(s, x) ==
    IF \E i \in 1..Len(s) : s[i] = x
    THEN CHOOSE i \in 1..Len(s) : s[i] = x /\ \A j \in 1..(i-1) : s[j] # x
    ELSE 0

\* the elements of a finite set of strings in ascending order
\* (HashSet -> Vec, then par_sort_unstable)
RECURSIVE SortedStrings(_)
SortedStrings(S) ==
    IF S = {} THEN <<>>
    ELSE LET m == CHOOSE x \in S : \A y \in S : y = x \/ StrLess(x, y)
         IN  <<m>> \o SortedStrings(S \ {m})

\* (subject, predicate, object) lexicographic order on id triples
TripleLess(t, u) ==
    \/ t.subject < u.subject
    \/ t.subject = u.subject /\ t.predicate < u.predicate
    \/ t.subject = u.subject /\ t.predicate = u.predicate /\ t.object < u.object

\* insertion of one triple into an ascending vector, duplicates kept
RECURSIVE InsertTriple(_, _)
InsertTriple(s, t) ==
    IF s = <<>> THEN <<t>>
    ELSE IF TripleLess(t, Head(s)) THEN <<t>> \o s
    ELSE <<Head(s)>> \o InsertTriple(Tail(s), t)

\* par_sort_unstable on a vector of id triples
SortTriplesKeepOrder(s) == s

RECURSIVE SortTriples(_)
SortTriples(s) ==
    IF s = <<>> THEN <<>>
    ELSE InsertTriple(SortTriples(Tail(s)), Head(s))

DedupKeepAll(s) == s

\* Vec::dedup: removes consecutive repeated elements
RECURSIVE Dedup(_)
Dedup(s) ==
    IF Len(s) <= 1 THEN s
    ELSE IF s[1] = s[2] THEN Dedup(Tail(s))
    ELSE <<s[1]>> \o Dedup(Tail(s))

IsStrictlyAscending(s) == \A i \in 1..(Len(s) - 1) : TripleLess(s[i], s[i+1])

-----------------------------------------------------------------------------
(* The strings and triples the callers hand to a builder *)

StrA == <<1>>
StrAA == <<1, 1>>
StrB == <<2>>

Node(s) == [tag |-> "Node", str |-> s]
Value(s) == [tag |-> "Value", str |-> s]

\* StringTriple::new_node / StringTriple::new_value
StringTriple(s, p, o) == [subject |-> s, predicate |-> p, object |-> o]
IdTriple(s, p, o) == [subject |-> s, predicate |-> p, object |-> o]

StringTriples ==
    { StringTriple(StrA, StrA, Value(StrA)),
      StringTriple(StrB, StrA, Node(StrA)),
      StringTriple(StrA, StrA, Node(StrB)),
      StringTriple(StrAA, StrB, Value(StrB)) }

\* the string triples looked up: those above and each with the other object kind
QueryTriples ==
    StringTriples \cup
    { StringTriple(t.subject, t.predicate,
                   IF t.object.tag = "Node" THEN Value(t.object.str) ELSE Node(t.object.str)) :
        t \in StringTriples }

IdTriples ==
    { IdTriple(1, 1, 2), IdTriple(2, 1, 1), IdTriple(3, 1, 1) }

NoBuilder == [kind |-> "NoBuilder"]
NoCommit == [status |-> "none"]

-----------------------------------------------------------------------------
(* The read side of a layer stack.  ls is the vector of committed layers,  *)
(* i the index of a layer in it (0: no layer).                             *)

RECURSIVE node_count(_, _)
node_count(ls, i) ==
    IF i = 0 THEN 0 ELSE Len(ls[i].node_dictionary) + node_count(ls, ls[i].parent)

RECURSIVE predicate_count(_, _)
predicate_count(ls, i) ==
    IF i = 0 THEN 0 ELSE Len(ls[i].predicate_dictionary) + predicate_count(ls, ls[i].parent)

RECURSIVE value_count(_, _)
value_count(ls, i) ==
    IF i = 0 THEN 0 ELSE Len(ls[i].value_dictionary) + value_count(ls, ls[i].parent)

node_and_value_count(ls, i) == node_count(ls, i) + value_count(ls, i)

\* id of a node string in the stack: a layer's new nodes follow all of its
\* parent's nodes and values
RECURSIVE subject_id(_, _, _)
subject_id(ls, i, s) ==
    IF i = 0 THEN 0
    ELSE LET k == IndexOf(ls[i].node_dictionary, s)
         IN  IF k > 0 THEN node_and_value_count(ls, ls[i].parent) + k
             ELSE subject_id(ls, ls[i].parent, s)

RECURSIVE predicate_id(_, _, _)
predicate_id(ls, i, s) ==
    IF i = 0 THEN 0
    ELSE LET k == IndexOf(ls[i].predicate_dictionary, s)
         IN  IF k > 0 THEN predicate_count(ls, ls[i].parent) + k
             ELSE predicate_id(ls, ls[i].parent, s)

object_node_id(ls, i, s) == subject_id(ls, i, s)

\* id of a value string: a layer's new values follow its new nodes
RECURSIVE object_value_id(_, _, _)
object_value_id(ls, i, s) ==
    IF i = 0 THEN 0
    ELSE LET k == IndexOf(ls[i].value_dictionary, s)
         IN  IF k > 0
             THEN node_and_value_count(ls, ls[i].parent) + Len(ls[i].node_dictionary) + k
             ELSE object_value_id(ls, ls[i].parent, s)

object_id(ls, i, o) ==
    IF o.tag = "Node" THEN object_node_id(ls, i, o.str) ELSE object_value_id(ls, i, o.str)

\* an id triple is visible through layer i when the layer adds it or its
\* parent stack shows it, and the layer does not remove it
RECURSIVE triple_exists(_, _, _)
triple_exists(ls, i, t) ==
    IF i = 0 THEN FALSE
    ELSE /\ t \notin Range(ls[i].neg)
         /\ \/ t \in Range(ls[i].pos)
            \/ triple_exists(ls, ls[i].parent, t)

string_triple_exists(ls, i, st) ==
    LET s == subject_id(ls, i, st.subject)
        p == predicate_id(ls, i, st.predicate)
        o == object_id(ls, i, st.object)
    IN  s # 0 /\ p # 0 /\ o # 0 /\ triple_exists(ls, i, IdTriple(s, p, o))

Resolved(id) == [resolved |-> TRUE, id |-> id]
Unresolved(x) == [resolved |-> FALSE, value |-> x]

PossiblyResolved(id, x) == IF id # 0 THEN Resolved(id) ELSE Unresolved(x)

\* Layer::string_triple_to_partially_resolved
string_triple_to_partially_resolved(ls, i, st) ==
    [subject   |-> PossiblyResolved(subject_id(ls, i, st.subject), st.subject),
     predicate |-> PossiblyResolved(predicate_id(ls, i, st.predicate), st.predicate),
     object    |-> PossiblyResolved(object_id(ls, i, st.object), st.object)]

\* StringTriple::to_unresolved
to_unresolved(st) ==
    [subject   |-> Unresolved(st.subject),
     predicate |-> Unresolved(st.predicate),
     object    |-> Unresolved(st.object)]

\* IdTriple::to_resolved
to_resolved(t) ==
    [subject   |-> Resolved(t.subject),
     predicate |-> Resolved(t.predicate),
     object    |-> Resolved(t.object)]

IsFullyResolved(pt) == pt.subject.resolved /\ pt.predicate.resolved /\ pt.object.resolved

\* PartiallyResolvedTriple::as_resolved, for a triple that is fully resolved
as_resolved(pt) == IdTriple(pt.subject.id, pt.predicate.id, pt.object.id)

\* PartiallyResolvedTriple::resolve_with: None (0 ids) never arises for the
\* maps commit builds, which hold every unresolved string of the additions
resolve_with(pt, node_map, predicate_map, value_map) ==
    IdTriple(
        IF pt.subject.resolved THEN pt.subject.id ELSE node_map[pt.subject.value],
        IF pt.predicate.resolved THEN pt.predicate.id ELSE predicate_map[pt.predicate.value],
        IF pt.object.resolved THEN pt.object.id
        ELSE IF pt.object.value.tag = "Node" THEN node_map[pt.object.value.str]
        ELSE value_map[pt.object.value.str])

MapSeq(f(_), s) == [k \in 1..Len(s) |-> f(s[k])]

-----------------------------------------------------------------------------
(* SimpleLayerBuilder::commit *)

\* the additions as partially resolved triples: string triples resolved
\* against the parent (left unresolved for a base layer), then the id triples
CommitAdditions(ls, b) ==
    (IF b.parent = 0
     THEN MapSeq(to_unresolved, b.additions)
     ELSE MapSeq(LAMBDA t : string_triple_to_partially_resolved(ls, b.parent, t),
                 b.additions))
    \o MapSeq(to_resolved, b.id_additions)

\* the removals as id triples: string removals the parent resolves fully,
\* then the id removals, sorted and deduplicated; none for a base layer
CommitRemovals(ls, b) ==
    IF b.parent # 0
    THEN LET partial == MapSeq(LAMBDA t : string_triple_to_partially_resolved(ls, b.parent, t),
                               b.removals)
             resolved == MapSeq(as_resolved, SelectSeq(partial, IsFullyResolved))
         IN  Dedup(SortTriples(resolved \o b.id_removals))
    ELSE <<>>

UnresolvedNodes(additions) ==
    SortedStrings(
        {additions[k].subject.value :
            k \in {j \in 1..Len(additions) : ~additions[j].subject.resolved}}
        \cup
        {additions[k].object.value.str :
            k \in {j \in 1..Len(additions) :
                     /\ ~additions[j].object.resolved
                     /\ additions[j].object.value.tag = "Node"}})

UnresolvedPredicates(additions) ==
    SortedStrings(
        {additions[k].predicate.value :
            k \in {j \in 1..Len(additions) : ~additions[j].predicate.resolved}})

UnresolvedValues(additions) ==
    SortedStrings(
        {additions[k].object.value.str :
            k \in {j \in 1..Len(additions) :
                     /\ ~additions[j].object.resolved
                     /\ additions[j].object.value.tag = "Value"}})

\* the ids a dictionary builder returns for the strings added to it:
\* each add returns the count of strings after it
DictAddAll(strings) == [k \in 1..Len(strings) |-> k]

ParentNodeOffsetNodesOnly(ls, p) ==
    IF p = 0 THEN 0 ELSE node_count(ls, p)

\* parent.all_counts(): node_count + value_count; a base layer has no offset
ParentNodeOffset(ls, p) ==
    IF p = 0 THEN 0 ELSE node_count(ls, p) + value_count(ls, p)

ParentPredicateOffset(ls, p) ==
    IF p = 0 THEN 0 ELSE predicate_count(ls, p)

\* node_map / predicate_map: zip of the sorted strings with the returned ids
ZipMap(strings, ids, offset) ==
    [s \in Range(strings) |-> ids[IndexOf(strings, s)] + offset]

ValueMapNoNodes(strings, ids, offset, node_map) ==
    [s \in Range(strings) |-> ids[IndexOf(strings, s)] + offset]

\* value_map: value ids follow the new node ids
ValueMap(strings, ids, offset, node_map) ==
    [s \in Range(strings) |->
        ids[IndexOf(strings, s)] + offset + Cardinality(DOMAIN node_map)]

\* the id triples handed to add_id_triples: resolved, sorted, deduplicated
AddTriples(additions, node_map, predicate_map, value_map) ==
    Dedup(SortTriples(
        MapSeq(LAMBDA t : resolve_with(t, node_map, predicate_map, value_map),
               additions)))

TripleInCountsAny(t, nv, pc) == TRUE

\* the triple writer's check on a pushed triple: ids are 1-based and lie
\* within the declared counts
TripleInCounts(t, nv, pc) ==
    /\ t.subject \in 1..nv
    /\ t.predicate \in 1..pc
    /\ t.object \in 1..nv

ChildAddKeepAll(ls, p, triples) == triples

\* ChildLayerFileBuilderPhase2::add_id_triples: a child records additions
\* relative to its parent, so a triple the parent stack shows is not recorded
ChildAddIdTriples(ls, p, triples) ==
    SelectSeq(triples, LAMBDA t : ~triple_exists(ls, p, t))

ChildRemoveKeepAll(ls, p, triples) == triples

\* ChildLayerFileBuilderPhase2::remove_id_triples: a removal of a triple the
\* parent stack does not show is dropped
ChildRemoveIdTriples(ls, p, triples) ==
    SelectSeq(triples, LAMBDA t : triple_exists(ls, p, t))

\* everything commit computes for builder b over the layers ls
Commit(ls, b) ==
    LET additions == CommitAdditions(ls, b)
        removals == CommitRemovals(ls, b)
        unresolved_nodes == UnresolvedNodes(additions)
        unresolved_predicates == UnresolvedPredicates(additions)
        unresolved_values == UnresolvedValues(additions)
        node_ids == DictAddAll(unresolved_nodes)
        predicate_ids == DictAddAll(unresolved_predicates)
        value_ids == DictAddAll(unresolved_values)
        parent_node_offset == ParentNodeOffset(ls, b.parent)
        parent_predicate_offset == ParentPredicateOffset(ls, b.parent)
        node_map == ZipMap(unresolved_nodes, node_ids, parent_node_offset)
        predicate_map == ZipMap(unresolved_predicates, predicate_ids, parent_predicate_offset)
        value_map == ValueMap(unresolved_values, value_ids, parent_node_offset, node_map)
        add_triples == AddTriples(additions, node_map, predicate_map, value_map)
        nv == node_and_value_count(ls, b.parent)
                + Len(unresolved_nodes) + Len(unresolved_values)
        pc == predicate_count(ls, b.parent) + Len(unresolved_predicates)
        pos == IF b.parent = 0 THEN add_triples
               ELSE ChildAddIdTriples(ls, b.parent, add_triples)
        neg == IF b.parent = 0 THEN <<>>
               ELSE ChildRemoveIdTriples(ls, b.parent, removals)
        ok == \A t \in Range(pos) \cup Range(neg) : TripleInCounts(t, nv, pc)
    IN  [status |-> IF ok THEN "ok" ELSE "panic",
         parent |-> b.parent,
         input |-> b,
         additions |-> additions,
         removals |-> removals,
         unresolved_nodes |-> unresolved_nodes,
         unresolved_predicates |-> unresolved_predicates,
         unresolved_values |-> unresolved_values,
         node_map |-> node_map,
         predicate_map |-> predicate_map,
         value_map |-> value_map,
         add_triples |-> add_triples,
         layer |-> [parent |-> b.parent,
                    node_dictionary |-> unresolved_nodes,
                    predicate_dictionary |-> unresolved_predicates,
                    value_dictionary |-> unresolved_values,
                    pos |-> pos,
                    neg |-> neg,
                    input |-> [additions |-> Range(b.additions),
                               id_additions |-> Range(b.id_additions),
                               removals |-> Range(b.removals),
                               id_removals |-> Range(b.id_removals),
                               calls |-> Len(b.additions) + Len(b.id_additions)
                                           + Len(b.removals) + Len(b.id_removals)
                                           + b.ignored]]]

-----------------------------------------------------------------------------
(* The builder as a state machine *)

EmptyBuilder(p) ==
    [kind |-> "Builder", parent |-> p,
     additions |-> <<>>, id_additions |-> <<>>,
     removals |-> <<>>, id_removals |-> <<>>,
     ignored |-> 0]

RECURSIVE CallsIn(_, _)
CallsIn(ls, i) == IF i = 0 THEN 0 ELSE ls[i].input.calls + CallsIn(ls, i - 1)

CallsMade ==
    CallsIn(layers, Len(layers))
    + (IF builder = NoBuilder THEN 0
       ELSE Len(builder.additions) + Len(builder.id_additions)
              + Len(builder.removals) + Len(builder.id_removals) + builder.ignored)

\* add_string_triple: the triple is pushed on additions
add_string_triple(b, t) == [b EXCEPT !.additions = Append(@, t)]

remove_string_triple_retained(b, t) ==
    [b EXCEPT !.removals = Append(@, t)]

\* a removal that takes a pending addition of the same triple back
remove_string_triple_cancelling(b, t) ==
    IF t \in Range(b.additions)
    THEN [b EXCEPT !.additions = SelectSeq(@, LAMBDA a : a # t)]
    ELSE IF b.parent # 0
    THEN [b EXCEPT !.removals = Append(@, t)]
    ELSE [b EXCEPT !.ignored = @ + 1]

\* remove_string_triple: the triple is pushed only if a parent exists; a
\* call without effect is counted in the field ignored, which the code
\* does not have
remove_string_triple(b, t) ==
    IF b.parent # 0
    THEN [b EXCEPT !.removals = Append(@, t)]
    ELSE [b EXCEPT !.ignored = @ + 1]

remove_id_triple_retained(b, t) ==
    [b EXCEPT !.id_removals = Append(@, t)]

\* remove_id_triple: as remove_string_triple, on id_removals
remove_id_triple(b, t) ==
    IF b.parent # 0
    THEN [b EXCEPT !.id_removals = Append(@, t)]
    ELSE [b EXCEPT !.ignored = @ + 1]

LayersInit ==
    /\ layers = <<>>
    /\ builder = NoBuilder
    /\ lastCommit = NoCommit

\* SimpleLayerBuilder::new
NewBuilder ==
    /\ builder = NoBuilder
    /\ Len(layers) < MaxLayers
    /\ builder' = EmptyBuilder(0)
    /\ lastCommit' = NoCommit
    /\ UNCHANGED <<layers, labelVars, blobs, structVars>>

\* SimpleLayerBuilder::from_parent
FromParent ==
    /\ builder = NoBuilder
    /\ Len(layers) < MaxLayers
    /\ \E p \in 1..Len(layers) : builder' = EmptyBuilder(p)
    /\ lastCommit' = NoCommit
    /\ UNCHANGED <<layers, labelVars, blobs, structVars>>

AddStringTriple ==
    /\ builder # NoBuilder
    /\ CallsMade < MaxOps
    /\ \E t \in StringTriples : builder' = add_string_triple(builder, t)
    /\ UNCHANGED <<layers, lastCommit, labelVars, blobs, structVars>>

AddIdTriple ==
    /\ builder # NoBuilder
    /\ CallsMade < MaxOps
    /\ \E t \in IdTriples :
          builder' = [builder EXCEPT !.id_additions = Append(@, t)]
    /\ UNCHANGED <<layers, lastCommit, labelVars, blobs, structVars>>

\* a removal is only retained if a parent exists
RemoveStringTriple ==
    /\ builder # NoBuilder
    /\ CallsMade < MaxOps
    /\ \E t \in StringTriples : builder' = remove_string_triple(builder, t)
    /\ UNCHANGED <<layers, lastCommit, labelVars, blobs, structVars>>

RemoveIdTriple ==
    /\ builder # NoBuilder
    /\ CallsMade < MaxOps
    /\ \E t \in IdTriples : builder' = remove_id_triple(builder, t)
    /\ UNCHANGED <<layers, lastCommit, labelVars, blobs, structVars>>

\* commit consumes the builder; the layer exists once finalize has returned
CommitBuilder ==
    /\ builder # NoBuilder
    /\ LET c == Commit(layers, builder)
       IN  /\ lastCommit' = [f \in (DOMAIN c) \ {"layer"} |-> c[f]]
           /\ layers' = IF c.status = "ok" THEN Append(layers, c.layer) ELSE layers
    /\ builder' = NoBuilder
    /\ UNCHANGED <<labelVars, blobs, structVars>>

-----------------------------------------------------------------------------
(* The directory label store: one two-line text file per label *)

\* Option and Result values
Some(x) == [tag |-> "Some", value |-> x]
None == [tag |-> "None"]
Ok(x) == [kind |-> "Ok", value |-> x]
Err(e) == [kind |-> "Err", error |-> e]

LabelNames == {"foo"}
\* layer names are [u32; 5]
LayerNames == { <<6, 7, 8, 9, 10>>, <<10, 9, 8, 7, 6>> }
LayerOptions == {None} \cup {Some(n) : n \in LayerNames}
Clients == {1, 2}

Label(name, layer, version) == [name |-> name, layer |-> layer, version |-> version]

\* Label::new_empty
new_empty(name) == Label(name, None, 0)

\* Label::with_updated_layer
with_updated_layer(label, layer) == Label(label.name, layer, label.version + 1)

\* a file of the label directory: absent, or its characters
NoFile == [exists |-> FALSE, data |-> <<>>]
FileOf(data) == [exists |-> TRUE, data |-> data]

DecDigits == <<"0", "1", "2", "3", "4", "5", "6", "7", "8", "9">>
HexDigits == DecDigits \o <<"a", "b", "c", "d", "e", "f">>

\* format!("{}", version)
RECURSIVE Decimal(_)
Decimal(n) ==
    IF n < 10 THEN <<DecDigits[n + 1]>>
    ELSE Decimal(n \div 10) \o <<DecDigits[(n % 10) + 1]>>

\* the value of a digit string in the radix given by its digit alphabet
RECURSIVE ParseRadix(_, _)
ParseRadix(s, digits) ==
    IF s = <<>> THEN 0
    ELSE ParseRadix(SubSeq(s, 1, Len(s) - 1), digits) * Len(digits)
         + (IndexOf(digits, s[Len(s)]) - 1)

\* u64::from_str_radix(s, 10): digits after an optional plus sign
from_str_radix(s) ==
    LET body == IF s # <<>> /\ Head(s) = "+" THEN Tail(s) ELSE s
    IN  IF body = <<>> \/ \E k \in 1..Len(body) : body[k] \notin Range(DecDigits)
        THEN Err("ParseIntError")
        ELSE Ok(ParseRadix(body, DecDigits))

\* one u32 as 8 lowercase hex characters
Hex8(w) == [k \in 1..8 |-> HexDigits[((w \div (16 ^ (8 - k))) % 16) + 1]]

\* layer::name_to_string: 40 lowercase hex characters
name_to_string(n) == Hex8(n[1]) \o Hex8(n[2]) \o Hex8(n[3]) \o Hex8(n[4]) \o Hex8(n[5])

\* layer::string_to_name
string_to_name(s) ==
    IF Len(s) # 40 \/ \E k \in 1..Len(s) : s[k] \notin Range(HexDigits)
    THEN Err("Other")
    ELSE Ok([i \in 1..5 |-> ParseRadix(SubSeq(s, 8 * i - 7, 8 * i), HexDigits)])

\* str::lines(): the pieces ended by a line feed, and the rest of the
\* text after the last line feed when that rest is not empty
Lines(s) ==
    LET ends == {k \in 1..Len(s) : s[k] = "\n"}
                \cup (IF s # <<>> /\ s[Len(s)] # "\n" THEN {Len(s) + 1} ELSE {})
        start(e) == IF \E k \in ends : k < e
                    THEN (CHOOSE k \in ends : k < e /\ \A j \in ends : j < e => j <= k) + 1
                    ELSE 1
        nth(i) == CHOOSE e \in ends : Cardinality({j \in ends : j < e}) = i - 1
    IN  [i \in 1..Cardinality(ends) |-> SubSeq(s, start(nth(i)), nth(i) - 1)]

get_label_from_file(name, data) ==
    LET lines == Lines(data)
    IN  IF Len(lines) # 2 THEN Err("InvalidData")
        ELSE LET version == from_str_radix(lines[1])
                 layer_str == lines[2]
             IN  IF version.kind = "Err" THEN Err("InvalidData")
                 ELSE IF layer_str = <<>>
                 THEN Ok(Label(name, None, version.value))
                 ELSE LET layer == string_to_name(layer_str)
                      IN  IF layer.kind = "Err" THEN layer
                          ELSE Ok(Label(name, Some(layer.value), version.value))

\* DirectoryLabelStore::get_label: a missing file is Ok(None)
get_label(files, name) ==
    IF ~files[name].exists THEN Ok(None)
    ELSE LET r == get_label_from_file(name, files[name].data)
         IN  IF r.kind = "Ok" THEN Ok(Some(r.value)) ELSE r

LabelContentsNoLayer(new_label) ==
    Decimal(new_label.version) \o <<"\n", "\n">>

\* the contents set_label_option writes for the new label
LabelContents(new_label) ==
    IF new_label.layer = None
    THEN Decimal(new_label.version) \o <<"\n", "\n">>
    ELSE Decimal(new_label.version) \o <<"\n">>
         \o name_to_string(new_label.layer.value) \o <<"\n">>

\* ExclusiveLockedFile::create_and_open / open followed by write_all: the
\* file holds the contents written
WriteAll(contents) == FileOf(contents)

LabelMatchesName(l, old_label) ==
    l # None /\ l.value.name = old_label.name

\* l == Some(old_label)
LabelMatches(l, old_label) == l = Some(old_label)

create_label_overwrite(files, name) ==
    [result |-> Ok(new_empty(name)),
     files |-> [files EXCEPT ![name] = WriteAll(<<"0", "\n", "\n">>)]]

\* DirectoryLabelStore::create_label: the result and the files left behind
create_label(files, name) ==
    IF files[name].exists
    THEN [result |-> Err("InvalidInput"), files |-> files]
    ELSE [result |-> Ok(new_empty(name)),
          files |-> [files EXCEPT ![name] = WriteAll(<<"0", "\n", "\n">>)]]

\* DirectoryLabelStore::set_label_option run without interruption: the
\* result and the files left behind
set_label_option(files, label, layer) ==
    LET new_label == with_updated_layer(label, layer)
        contents == LabelContents(new_label)
        l == get_label(files, label.name)
    IN  IF l.kind = "Err" THEN [result |-> l, files |-> files]
        ELSE IF LabelMatches(l.value, label)
        THEN [result |-> Ok(Some(new_label)),
              files |-> [files EXCEPT ![label.name] = WriteAll(contents)]]
        ELSE [result |-> Ok(None), files |-> files]

\* the record of a label store call: its arguments, its result and the
\* label file as the call found it
CallRecord(op, name, expected, layer, result, before) ==
    [op |-> op, name |-> name, expected |-> expected, layer |-> layer,
     result |-> result, before |-> before]

NoCall == CallRecord("none", "", None, None, Ok(None), NoFile)

LabelsInit ==
    /\ labelFiles = [n \in LabelNames |-> NoFile]
    /\ handle = [c \in Clients |-> None]
    /\ pending = [c \in Clients |-> None]
    /\ won = [c \in Clients |-> None]
    /\ lastOp = NoCall
    /\ stored = [n \in LabelNames |-> None]

BlobsInit ==
    blobs = [n \in LayerNames |-> [dir |-> FALSE, child |-> FALSE, stage |-> 0, dropped |-> FALSE]]

CreateLabel ==
    \E c \in Clients, name \in LabelNames :
        /\ pending[c] = None
        /\ LET r == create_label(labelFiles, name)
           IN  /\ labelFiles' = r.files
               /\ lastOp' = CallRecord("create", name, None, None, r.result, labelFiles[name])
               /\ handle' = IF r.result.kind = "Ok"
                            THEN [handle EXCEPT ![c] = Some(r.result.value)]
                            ELSE handle
               /\ stored' = IF r.result.kind = "Ok"
                            THEN [stored EXCEPT ![name] = Some(r.result.value)]
                            ELSE stored
        /\ UNCHANGED <<pending, won, layerVars, blobs, structVars>>

GetLabel ==
    \E c \in Clients, name \in LabelNames :
        /\ pending[c] = None
        /\ LET r == get_label(labelFiles, name)
           IN  handle' = IF r.kind = "Ok" /\ r.value # None
                         THEN [handle EXCEPT ![c] = r.value]
                         ELSE handle
        /\ UNCHANGED <<labelFiles, pending, won, lastOp, stored, layerVars, blobs, structVars>>

\* set_label_option by client c from the Label it holds, as one step
SetLabelOptionBy(c, layer) ==
    /\ pending[c] = None
    /\ handle[c] # None
    /\ handle[c].value.version < MaxVersion
    /\ LET label == handle[c].value
           r == set_label_option(labelFiles, label, layer)
           done == r.result.kind = "Ok" /\ r.result.value # None
       IN  /\ labelFiles' = r.files
           /\ lastOp' = CallRecord("set", label.name, Some(label), layer, r.result,
                                   labelFiles[label.name])
           /\ handle' = IF done THEN [handle EXCEPT ![c] = r.result.value] ELSE handle
           /\ stored' = IF done THEN [stored EXCEPT ![label.name] = r.result.value]
                        ELSE stored
           /\ won' = IF done THEN [won EXCEPT ![c] = Some(label)] ELSE won
    /\ UNCHANGED pending

SetLabelOption ==
    \E c \in Clients, layer \in LayerOptions :
        /\ SetLabelOptionBy(c, layer)
        /\ UNCHANGED <<layerVars, blobs, structVars>>

\* set_label_option up to the end of its get_label: the label is read and
\* compared with the expected one; the write is a later step
SetLabelRead ==
    \E c \in Clients, layer \in LayerOptions :
        /\ pending[c] = None
        /\ handle[c] # None
        /\ handle[c].value.version < MaxVersion
        /\ LET label == handle[c].value
               l == get_label(labelFiles, label.name)
           IN  IF l.kind = "Ok" /\ LabelMatches(l.value, label)
               THEN /\ pending' = [pending EXCEPT ![c] = Some([label |-> label, layer |-> layer])]
                    /\ UNCHANGED lastOp
               ELSE /\ lastOp' = CallRecord("set", label.name, Some(label), layer,
                                            IF l.kind = "Err" THEN l ELSE Ok(None),
                                            labelFiles[label.name])
                    /\ UNCHANGED pending
        /\ UNCHANGED <<labelFiles, handle, won, stored, layerVars, blobs, structVars>>

\* the rest of set_label_option: the file is opened under the exclusive
\* lock and the new contents are written
SetLabelWrite ==
    \E c \in Clients :
        /\ pending[c] # None
        /\ LET label == pending[c].value.label
               layer == pending[c].value.layer
               new_label == with_updated_layer(label, layer)
           IN  /\ labelFiles' = [labelFiles EXCEPT ![label.name] =
                                    WriteAll(LabelContents(new_label))]
               /\ lastOp' = CallRecord("set", label.name, Some(label), layer,
                                       Ok(Some(new_label)), labelFiles[label.name])
               /\ handle' = [handle EXCEPT ![c] = Some(new_label)]
               /\ stored' = [stored EXCEPT ![label.name] = Some(new_label)]
               /\ won' = [won EXCEPT ![c] = Some(label)]
        /\ pending' = [pending EXCEPT ![c] = None]
        /\ UNCHANGED <<layerVars, blobs, structVars>>

-----------------------------------------------------------------------------
(* Layer directories and the stages of a commit *)

\* the calls commit makes on the file builder, in order
CommitStages(child) ==
    IF child
    THEN <<"add_nodes", "add_predicates", "add_values", "into_phase2",
           "add_id_triples", "remove_id_triples", "finalize">>
    ELSE <<"add_nodes", "add_predicates", "add_values", "into_phase2",
           "add_id_triples", "finalize">>

\* every blob of the layer has been written and closed
LayerComplete(n) ==
    blobs[n].dir /\ blobs[n].stage = Len(CommitStages(blobs[n].child))

\* create_directory followed by SimpleLayerBuilder::new or from_parent, one
\* builder at a time
CreateLayerBuilder ==
    \E n \in LayerNames, child \in BOOLEAN :
        /\ ~blobs[n].dir
        /\ \A m \in LayerNames : blobs[m].dir => (blobs[m].dropped \/ LayerComplete(m))
        /\ child => \E p \in LayerNames : LayerComplete(p)
        /\ blobs' = [blobs EXCEPT ![n] = [dir |-> TRUE, child |-> child, stage |-> 0,
                                          dropped |-> FALSE]]
        /\ UNCHANGED <<layerVars, labelVars, structVars>>

\* one more call of commit's chain has completed
CommitStage ==
    \E n \in LayerNames :
        /\ blobs[n].dir
        /\ ~blobs[n].dropped
        /\ ~LayerComplete(n)
        /\ blobs' = [blobs EXCEPT ![n].stage = @ + 1]
        /\ UNCHANGED <<layerVars, labelVars, structVars>>

\* the builder, or the future of its commit, is dropped before finalize
DropBuilder ==
    \E n \in LayerNames :
        /\ blobs[n].dir
        /\ ~blobs[n].dropped
        /\ ~LayerComplete(n)
        /\ blobs' = [blobs EXCEPT ![n].dropped = TRUE]
        /\ UNCHANGED <<layerVars, labelVars, structVars>>

\* set_label with the name of a layer directory
PublishLayer ==
    \E c \in Clients, n \in LayerNames :
        /\ blobs[n].dir
        /\ SetLabelOptionBy(c, Some(n))
        /\ UNCHANGED <<layerVars, blobs, structVars>>

-----------------------------------------------------------------------------
(* DirectoryLayerStore: paths are sequences of components under the root *)

PREFIX_DIR_SIZE == 3

\* the one file name written in layer directories ("subjects")
DiskFileNames == { <<"s", "u", "b", "j", "e", "c", "t", "s">> }
\* the contents a file is written with
DiskData == 1..MaxData

\* <root>/<first 3 characters>/<name as 40 hex characters>
layer_path(name) ==
    LET name_str == name_to_string(name)
    IN  <<SubSeq(name_str, 1, PREFIX_DIR_SIZE), name_str>>

\* fs::create_dir_all: the directory and every missing ancestor
create_dir_all(dirs, p) == dirs \cup {SubSeq(p, 1, k) : k \in 1..Len(p)}

\* a file written under path p, replacing the file that was there
write_file(files, p, data) ==
    {f \in files : f.path # p} \cup {[path |-> p, data |-> data]}

\* DirectoryLayerStore::directories: the directories among the entries of
\* the root, each turned into a layer name; the first failure is the result
directories(d) ==
    LET dir_names == {p[1] : p \in {q \in d.dirs : Len(q) = 1}}
    IN  IF \E s \in dir_names : string_to_name(s).kind = "Err"
        THEN Err("Other")
        ELSE Ok({string_to_name(s).value : s \in dir_names})

\* DirectoryLayerStore::create_directory with name the random name drawn
create_directory(d, name) ==
    [d EXCEPT !.dirs = create_dir_all(d.dirs, layer_path(name))]

\* DirectoryLayerStore::directory_exists
directory_exists(d, name) == layer_path(name) \in d.dirs

\* DirectoryLayerStore::export_layers: for each id the directory of the
\* layer and everything beneath it, under the name of the layer
export_layers(d, layer_ids) ==
    UNION { {[path |-> <<name_to_string(id)>>, dir |-> TRUE, data |-> 0]}
            \cup {[path |-> <<name_to_string(id)>> \o SubSeq(f.path, 3, Len(f.path)),
                   dir |-> FALSE, data |-> f.data] :
                      f \in {g \in d.files : Len(g.path) > 2
                                              /\ SubSeq(g.path, 1, 2) = layer_path(id)}}
          : id \in layer_ids }

\* Entry::unpack_in of the tar crate: "." components are dropped, an entry
\* with a ".." component is skipped, missing parents are created;
\* <<>> stands for an entry that is not unpacked
unpack_target(dst, entry) ==
    IF \E k \in 1..Len(entry.path) : entry.path[k] = <<".", ".">>
    THEN <<>>
    ELSE LET file_dst == dst \o SelectSeq(entry.path, LAMBDA c : c # <<".">>)
         IN  IF file_dst = dst THEN <<>> ELSE file_dst

\* the filter of import_layers left out: every entry is unpacked
wanted_targets_all(pack, layer_ids) ==
    {[entry |-> e,
      target |-> IF e.path = <<>> \/ Len(e.path[1]) < PREFIX_DIR_SIZE THEN <<>>
                 ELSE unpack_target(<<SubSeq(e.path[1], 1, PREFIX_DIR_SIZE)>>, e)]
        : e \in pack}

\* the loop of import_layers: every entry of the pack with where it is
\* unpacked, <<>> for an entry that is passed over
wanted_targets(pack, layer_ids) ==
    LET layer_id_set == {name_to_string(n) : n \in layer_ids}
    IN  {[entry |-> e,
          target |-> IF e.path # <<>> /\ e.path[1] \in layer_id_set
                     THEN unpack_target(<<SubSeq(e.path[1], 1, PREFIX_DIR_SIZE)>>, e)
                     ELSE <<>>]
            : e \in pack}

\* DirectoryLayerStore::import_layers
import_layers(d, pack, layer_ids) ==
    LET unpacked == {u \in wanted_targets(pack, layer_ids) : u.target # <<>>}
        made == UNION {create_dir_all({}, IF u.entry.dir THEN u.target
                                          ELSE SubSeq(u.target, 1, Len(u.target) - 1))
                          : u \in unpacked}
        written == {u \in unpacked : ~u.entry.dir}
    IN  [d EXCEPT
            !.dirs = d.dirs \cup made,
            !.files = {f \in d.files : \A u \in written : u.target # f.path}
                      \cup {[path |-> u.target, data |-> u.entry.data] : u \in written}]

\* a store that holds both layers, each with its file
PackedStore ==
    [dirs |-> UNION {create_dir_all({}, layer_path(n)) : n \in LayerNames},
     files |-> {[path |-> layer_path(n) \o <<f>>, data |-> MaxData] :
                    n \in LayerNames, f \in DiskFileNames}]

\* entries no export of a store makes: a top-level directory that is not a
\* layer name, a path that starts with ".", a path that leaves the layer
\* directory through ".."
ForeignEntries(n, m) ==
    { [path |-> <<<<"x", "y", "z", "w">>, CHOOSE f \in DiskFileNames : TRUE>>,
       dir |-> FALSE, data |-> MaxData],
      [path |-> <<<<".">>, name_to_string(m), CHOOSE f \in DiskFileNames : TRUE>>,
       dir |-> FALSE, data |-> MaxData],
      [path |-> <<name_to_string(n), <<".", ".">>, name_to_string(m),
                  CHOOSE f \in DiskFileNames : TRUE>>,
       dir |-> FALSE, data |-> MaxData] }

\* the packs handed to import_layers: exports of PackedStore, with and
\* without foreign entries
Packs ==
    {export_layers(PackedStore, ids) : ids \in SUBSET LayerNames}
    \cup {export_layers(PackedStore, {pr[1]}) \cup ForeignEntries(pr[1], pr[2]) :
              pr \in {q \in LayerNames \X LayerNames : q[1] # q[2]}}

NoDiskCall == [op |-> "none", name |-> <<>>, pack |-> {}, layer_ids |-> {},
           dirs |-> {}, files |-> {}, entries |-> <<>>, parents |-> Ok({})]

\* DirectoryLayerStore::new on an empty directory
DiskInit ==
    disk = [dirs |-> {}, files |-> {}, created |-> {}, last |-> NoDiskCall]

\* create_directory; rand::random() draws the name
DiskCreateDirectory ==
    /\ \E name \in LayerNames :
          disk' = [create_directory(disk, name) EXCEPT
                      !.created = disk.created \cup {name},
                      !.last = [NoDiskCall EXCEPT !.op = "create_directory", !.name = name]]
    /\ UNCHANGED <<storeVars, fin, adj, base, join, dict, phase1>>

\* get_file on a layer directory followed by open_write and a write
DiskWriteFile ==
    /\ \E name \in LayerNames, f \in DiskFileNames, data \in DiskData :
          /\ directory_exists(disk, name)
          /\ disk' = [disk EXCEPT
                         !.files = write_file(disk.files, layer_path(name) \o <<f>>, data),
                         !.last = [NoDiskCall EXCEPT !.op = "write", !.name = name]]
    /\ UNCHANGED <<storeVars, fin, adj, base, join, dict, phase1>>

\* import_layers with a pack and the layer ids wanted
DiskImportLayers ==
    /\ \E pack \in Packs, layer_ids \in SUBSET LayerNames :
          disk' = [import_layers(disk, pack, layer_ids) EXCEPT
                      !.last = [NoDiskCall EXCEPT
                                   !.op = "import_layers", !.pack = pack,
                                   !.layer_ids = layer_ids,
                                   !.dirs = disk.dirs, !.files = disk.files]]
    /\ UNCHANGED <<storeVars, fin, adj, base, join, dict, phase1>>

\* the longest pack handed to pack_layer_parents
MaxPackEntries == 3

\* the file name that holds the parent of a layer
ParentHex == <<"p", "a", "r", "e", "n", "t", ".", "h", "e", "x">>

\* HashMap::insert: the value of a key that is present is replaced
map_insert(map, id, v) == {e \in map : e[1] # id} \cup {<<id, v>>}

\* HashMap::contains_key
map_contains_key(map, id) == \E e \in map : e[1] = id

\* Path::file_name: the last component
file_name(path) == path[Len(path)]

\* read_exact of 40 bytes from the entry, then string_to_name
read_parent_id(data) ==
    IF Len(data) < 40 THEN Err("Io") ELSE string_to_name(SubSeq(data, 1, 40))

\* the loop without the contains_key test: an entry that is not parent.hex
\* always stores None
RECURSIVE pack_layer_parents_none_overwrites(_)
pack_layer_parents_none_overwrites(entries) ==
    IF entries = <<>> THEN Ok({})
    ELSE LET before == pack_layer_parents_none_overwrites(
                           SubSeq(entries, 1, Len(entries) - 1))
             entry == entries[Len(entries)]
             id == string_to_name(entry.path[1])
         IN  IF before.kind = "Err" THEN before
             ELSE IF id.kind = "Err" THEN id
             ELSE IF file_name(entry.path) = ParentHex
             THEN LET parent_id == read_parent_id(entry.data)
                  IN  IF parent_id.kind = "Err" THEN parent_id
                      ELSE Ok(map_insert(before.value, id.value, Some(parent_id.value)))
             ELSE Ok(map_insert(before.value, id.value, None))

\* pack_layer_parents: the entries of the archive in their order; the
\* first failure is the result
RECURSIVE pack_layer_parents(_)
pack_layer_parents(entries) ==
    IF entries = <<>> THEN Ok({})
    ELSE LET before == pack_layer_parents(SubSeq(entries, 1, Len(entries) - 1))
             entry == entries[Len(entries)]
             id == string_to_name(entry.path[1])
         IN  IF before.kind = "Err" THEN before
             ELSE IF id.kind = "Err" THEN id
             ELSE IF file_name(entry.path) = ParentHex
             THEN LET parent_id == read_parent_id(entry.data)
                  IN  IF parent_id.kind = "Err" THEN parent_id
                      ELSE Ok(map_insert(before.value, id.value, Some(parent_id.value)))
             ELSE IF ~map_contains_key(before.value, id.value)
             THEN Ok(map_insert(before.value, id.value, None))
             ELSE before

\* the tar entries of layer n as export_layers writes them, with file
\* contents as bytes: the directory, its subjects file, and a parent.hex
\* that names layer m
LayerEntries(n, m) ==
    { [path |-> <<name_to_string(n)>>, dir |-> TRUE, data |-> <<>>],
      [path |-> <<name_to_string(n), CHOOSE f \in DiskFileNames : TRUE>>,
       dir |-> FALSE, data |-> <<"d">>],
      [path |-> <<name_to_string(n), ParentHex>>, dir |-> FALSE,
       data |-> name_to_string(m)] }

\* entries of packs that are not exports: a top-level directory that is
\* not a layer name, a parent.hex cut short
BrokenEntries(n) ==
    { [path |-> <<<<"x", "y", "z", "w">>, CHOOSE f \in DiskFileNames : TRUE>>,
       dir |-> FALSE, data |-> <<"d">>],
      [path |-> <<name_to_string(n), ParentHex>>, dir |-> FALSE,
       data |-> SubSeq(name_to_string(n), 1, 8)] }

PackEntries ==
    UNION {LayerEntries(pr[1], pr[2]) :
              pr \in {q \in LayerNames \X LayerNames : q[1] # q[2]}}
    \cup BrokenEntries(CHOOSE n \in LayerNames : TRUE)

\* the archives handed to pack_layer_parents: entries in any order
EntrySequences ==
    {q \in UNION {[1..k -> PackEntries] : k \in 0..MaxPackEntries} :
        \A i, j \in 1..Len(q) : i # j => q[i] # q[j]}

\* pack_layer_parents on an archive
DiskPackLayerParents ==
    /\ \E entries \in EntrySequences :
          disk' = [disk EXCEPT
                      !.last = [NoDiskCall EXCEPT
                                   !.op = "pack_layer_parents",
                                   !.entries = entries,
                                   !.parents = pack_layer_parents(entries)]]
    /\ UNCHANGED <<storeVars, fin, adj, base, join, dict, phase1>>

-----------------------------------------------------------------------------
(* Adjacency lists: a nums array and a bits array, positions counted from 0 *)

\* BitIndex::rank1: the number of 1 bits at positions 0..pos
rank1(bits, pos) == Cardinality({k \in 1..Len(bits) : k <= pos + 1 /\ bits[k] = 1})

\* BitIndex::select1: the position of the k-th 1 bit, -1 for None
select1(bits, k) ==
    IF \E i \in 1..Len(bits) : bits[i] = 1 /\ rank1(bits, i - 1) = k
    THEN (CHOOSE i \in 1..Len(bits) : bits[i] = 1 /\ rank1(bits, i - 1) = k) - 1
    ELSE -1

\* LogArray::slice
slice(nums, start, length) == SubSeq(nums, start + 1, start + length)

left_count(bits) ==
    IF Len(bits) = 0 THEN 0 ELSE rank1(bits, Len(bits) - 1)

offset_for(bits, index) ==
    IF index = 1 THEN 0 ELSE select1(bits, index - 1) + 1

\* AdjacencyList::get for 1 <= index <= left_count
get(nums, bits, index) ==
    LET start == offset_for(bits, index)
        end == select1(bits, index)
        length == end - start + 1
    IN  slice(nums, start, length)

\* AdjacencyListIterator::next, run to the end: the pairs from position pos on
RECURSIVE IterFrom(_, _, _, _)
IterFrom(nums, bits, pos, left) ==
    IF pos >= Len(bits) THEN <<>>
    ELSE LET bit == bits[pos + 1]
             num == nums[pos + 1]
             next_left == IF bit = 1 THEN left + 1 ELSE left
         IN  IF num = 0 THEN IterFrom(nums, bits, pos + 1, next_left)
             ELSE <<<<left, num>>>> \o IterFrom(nums, bits, pos + 1, next_left)

\* AdjacencyList::iter
iter(nums, bits) == IterFrom(nums, bits, 0, 1)

\* AdjacencyBitCountStream: for each bit the count before it, the count
\* rising after every 1 bit
AdjacencyBitCountStream(bits, offset) ==
    [k \in 1..Len(bits) |-> offset + (IF k = 1 THEN 0 ELSE rank1(bits, k - 2))]

\* Stream::zip: as long as the shorter of the two
Zip(a, b) ==
    [k \in 1..(IF Len(a) < Len(b) THEN Len(a) ELSE Len(b)) |-> <<a[k], b[k]>>]

adjacency_list_stream_pairs(bits, nums) ==
    SelectSeq(Zip(AdjacencyBitCountStream(bits, 1), nums), LAMBDA pr : pr[2] # 0)

\* a sequence of n copies of x
Repeat(x, n) == [k \in 1..n |-> x]

\* AdjacencyListBuilder::new
NewAdjacencyListBuilder ==
    [status |-> "building", bits |-> <<>>, nums |-> <<>>, last_left |-> 0, last_right |-> 0]

\* the test that makes push panic
PushRejectsLeftOnly(last_left, last_right, left, right) == left < last_left

PushRejects(last_left, last_right, left, right) ==
    left < last_left \/ (left = last_left /\ right <= last_right)

PushNoLag(b, left, right) ==
    IF PushRejects(b.last_left, b.last_right, left, right)
    THEN [b EXCEPT !.status = "panic"]
    ELSE LET skip == left - b.last_left
         IN  [status |-> "building",
              bits |-> b.bits \o (IF skip = 0 THEN <<0>> ELSE Repeat(1, skip)),
              nums |-> b.nums \o Repeat(0, skip - 1) \o <<right>>,
              last_left |-> left, last_right |-> right]

\* AdjacencyListBuilder::push: the bit array lags one entry behind nums
Push(b, left, right) ==
    IF PushRejects(b.last_left, b.last_right, left, right)
    THEN [b EXCEPT !.status = "panic"]
    ELSE LET skip == left - b.last_left
             bits == IF b.last_left = 0 /\ skip = 1 THEN b.bits
                     ELSE IF skip = 0 THEN Append(b.bits, 0)
                     ELSE LET bitskip == IF b.last_left = 0 THEN skip - 1 ELSE skip
                          IN  b.bits \o Repeat(1, bitskip)
             nums == IF (b.last_left = 0 /\ skip = 1) \/ skip = 0 THEN b.nums
                     ELSE b.nums \o Repeat(0, skip - 1)
         IN  [status |-> "building", bits |-> bits, nums |-> Append(nums, right),
              last_left |-> left, last_right |-> right]

FinalizeNoBit(b) == [b EXCEPT !.status = "finalized"]

\* a finalize that writes the closing bit whether or not a pair was pushed
FinalizeAlwaysBit(b) == [b EXCEPT !.status = "finalized", !.bits = Append(b.bits, 1)]

\* AdjacencyListBuilder::finalize: the bit of the last entry is written
Finalize(b) ==
    [b EXCEPT !.status = "finalized",
              !.bits = IF Len(b.nums) = 0 THEN b.bits ELSE Append(b.bits, 1)]

\* the pairs pushed, as the lefts and rights given to push
Lefts == 0..MaxLeft
Rights == 0..MaxRight

AdjInit ==
    adj = [builder |-> NewAdjacencyListBuilder, pushed |-> <<>>,
           last |-> [left |-> 0, right |-> 0, before |-> NewAdjacencyListBuilder]]

\* push(left, right); a push that panics leaves the files as they are and
\* ends the builder
AdjPush ==
    /\ adj.builder.status = "building"
    /\ Len(adj.pushed) < MaxPushes
    /\ \E left \in Lefts, right \in Rights :
          LET b == Push(adj.builder, left, right)
          IN  adj' = [builder |-> b,
                      pushed |-> IF b.status = "panic" THEN adj.pushed
                                 ELSE Append(adj.pushed, <<left, right>>),
                      last |-> [left |-> left, right |-> right, before |-> adj.builder]]
    /\ UNCHANGED <<storeVars, disk, fin, base, join, dict, phase1>>

AdjFinalize ==
    /\ adj.builder.status = "building"
    /\ adj' = [adj EXCEPT !.builder = Finalize(adj.builder)]
    /\ UNCHANGED <<storeVars, disk, fin, base, join, dict, phase1>>

-----------------------------------------------------------------------------
(* Base layer triples: the forward files s_p and sp_o, and the readers *)

\* the ids declared by phase 1 of the base layer builder
BaseTriples ==
    {IdTriple(s, p, o) : s \in 1..MaxSubject, p \in 1..MaxPredicate, o \in 1..MaxObject}

\* triples with one id beyond the counts declared
OutOfCountTriples ==
    {IdTriple(MaxSubject + 1, 1, 1), IdTriple(1, MaxPredicate + 1, 1),
     IdTriple(1, 1, MaxSubject + 1)}

NoTriple == IdTriple(0, 0, 0)

\* AdjacencyListBuilder::count: the number of bits written so far
count(b) == Len(b.bits)

\* TripleFileBuilder::new, as BaseLayerFileBuilderPhase2::new calls it; nv and
\* pc are the counts of nodes and values and of predicates it is handed
NewTripleFileBuilder ==
    [status |-> "building",
     nv |-> MaxSubject,
     pc |-> MaxPredicate,
     s_p |-> NewAdjacencyListBuilder,
     sp_o |-> NewAdjacencyListBuilder,
     last |-> NoTriple,
     pairs |-> 0]

\* a triple writer that numbers the (subject, predicate) pairs 1, 2, 3, ...
\* whatever entries the s_p list holds
TripleFileAddNumbered(b, t) ==
    IF ~TripleLess(b.last, t) \/ ~TripleInCounts(t, b.nv, b.pc)
    THEN [b EXCEPT !.status = "panic"]
    ELSE IF b.last.subject = t.subject /\ b.last.predicate = t.predicate
    THEN [b EXCEPT !.sp_o = Push(b.sp_o, b.pairs, t.object), !.last = t]
    ELSE [b EXCEPT !.s_p = Push(b.s_p, t.subject, t.predicate),
                   !.sp_o = Push(b.sp_o, b.pairs + 1, t.object),
                   !.pairs = b.pairs + 1,
                   !.last = t]

\* TripleFileBuilder::add_triple: a new (subject, predicate) goes to s_p, and
\* the object goes to sp_o under the position of that pair's entry in s_p
TripleFileAdd(b, t) ==
    IF ~TripleLess(b.last, t) \/ ~TripleInCounts(t, b.nv, b.pc)
    THEN [b EXCEPT !.status = "panic"]
    ELSE IF b.last.subject = t.subject /\ b.last.predicate = t.predicate
    THEN [b EXCEPT !.sp_o = Push(b.sp_o, count(b.s_p) + 1, t.object), !.last = t]
    ELSE LET s_p == Push(b.s_p, t.subject, t.predicate)
         IN  [b EXCEPT !.s_p = s_p,
                       !.sp_o = Push(b.sp_o, count(s_p) + 1, t.object),
                       !.pairs = b.pairs + 1,
                       !.last = t]

\* TripleFileBuilder::finalize: both adjacency lists are finalized
TripleFileFinalize(b) ==
    [b EXCEPT !.status = "finalized",
              !.s_p = Finalize(b.s_p),
              !.sp_o = Finalize(b.sp_o)]

\* the files of an adjacency list cut down to their first n entries
CutFiles(f, n) == [f EXCEPT !.bits = SubSeq(f.bits, 1, n), !.nums = SubSeq(f.nums, 1, n)]

\* the objects of the (subject, predicate) entry at position pos of s_p
ObjectsAt(sp_o, s, p, pos) ==
    IF pos + 1 > left_count(sp_o.bits) THEN <<>>
    ELSE LET objects == SelectSeq(get(sp_o.nums, sp_o.bits, pos + 1), LAMBDA o : o # 0)
         IN  [k \in 1..Len(objects) |-> IdTriple(s, p, objects[k])]

\* the triples of subject s: its predicates in s_p, each with its objects
RECURSIVE SubjectTriplesFrom(_, _, _, _, _)
SubjectTriplesFrom(s_p, sp_o, s, predicates, k) ==
    IF k > Len(predicates) THEN <<>>
    ELSE (IF predicates[k] = 0 THEN <<>>
          ELSE ObjectsAt(sp_o, s, predicates[k], offset_for(s_p.bits, s) + k - 1))
         \o SubjectTriplesFrom(s_p, sp_o, s, predicates, k + 1)

\* BaseLayer triples(): the subjects 1..left_count in turn
RECURSIVE TriplesFrom(_, _, _)
TriplesFrom(s_p, sp_o, s) ==
    IF s > left_count(s_p.bits) THEN <<>>
    ELSE SubjectTriplesFrom(s_p, sp_o, s, get(s_p.nums, s_p.bits, s), 1)
         \o TriplesFrom(s_p, sp_o, s + 1)

triples(s_p, sp_o) == TriplesFrom(s_p, sp_o, 1)

\* AdjacencyList::right_count
right_count(bits) == Len(bits)

\* AdjacencyList::left_at_pos
left_at_pos(bits, pos) == IF pos = 0 THEN 1 ELSE rank1(bits, pos - 1) + 1

\* AdjacencyList::num_at_pos
num_at_pos(nums, pos) == nums[pos + 1]

\* a pair_at_pos that counts the bit of the position itself
pair_at_pos_counting_own_bit(nums, bits, pos) == <<rank1(bits, pos) + 1, nums[pos + 1]>>

\* AdjacencyList::pair_at_pos
pair_at_pos(nums, bits, pos) ==
    <<(IF pos = 0 THEN 0 ELSE rank1(bits, pos - 1)) + 1, nums[pos + 1]>>

\* the (o, sp) projections pushed into an adjacency builder as the sp_o
\* stream yields them
build_o_ps_unsorted(sp_o) ==
    LET pairs == adjacency_list_stream_pairs(sp_o.bits, sp_o.nums)
        RECURSIVE PushAll(_, _)
        PushAll(b, k) ==
            IF k > Len(pairs) \/ b.status = "panic" THEN b
            ELSE PushAll(Push(b, pairs[k][2], pairs[k][1]), k + 1)
    IN  Finalize(PushAll(NewAdjacencyListBuilder, 1))

\* the second pass of build_indexes: the (o, sp) projections of the sp_o
\* stream, sorted ascending and pushed into an adjacency builder
build_o_ps(sp_o) ==
    LET pairs == adjacency_list_stream_pairs(sp_o.bits, sp_o.nums)
        sorted == SortTriples([k \in 1..Len(pairs) |->
                                  IdTriple(pairs[k][2], pairs[k][1], 0)])
        RECURSIVE PushAll(_, _)
        PushAll(b, k) ==
            IF k > Len(sorted) \/ b.status = "panic" THEN b
            ELSE PushAll(Push(b, sorted[k].subject, sorted[k].predicate), k + 1)
    IN  Finalize(PushAll(NewAdjacencyListBuilder, 1))

\* lookup_object(o).subject_predicate_pairs(): the entries of o in the o_ps
\* list, each resolved to its (subject, predicate) pair at position sp - 1
\* of the s_p list; <<>> stands for None as well
lookup_object(s_p, o_ps, o) ==
    IF o < 1 \/ o > left_count(o_ps.bits) THEN <<>>
    ELSE LET sps == SelectSeq(get(o_ps.nums, o_ps.bits, o), LAMBDA sp : sp # 0)
         IN  [k \in 1..Len(sps) |-> pair_at_pos(s_p.nums, s_p.bits, sps[k] - 1)]

\* objects(): the objects of the o_ps list that have a pair, in the order
\* of the list
objects(s_p, o_ps) ==
    SelectSeq([o \in 1..left_count(o_ps.bits) |-> o],
              LAMBDA o : lookup_object(s_p, o_ps, o) # <<>>)

\* BaseTripleStream::new
NewBaseTripleStream(s_p_stream, sp_o_stream) ==
    [open |-> TRUE,
     s_p_stream |-> s_p_stream,
     sp_o_stream |-> sp_o_stream,
     last_s_p |-> <<0, 0>>,
     last_sp |-> 0,
     polls |-> 0,
     result |-> "none",
     out |-> <<>>]

NoStream ==
    [open |-> FALSE, s_p_stream |-> <<>>, sp_o_stream |-> <<>>, last_s_p |-> <<0, 0>>,
     last_sp |-> 0, polls |-> 0, result |-> "none", out |-> <<>>]

\* a join that takes the next s_p entry for every sp_o entry
poll_next_always_advance(j) ==
    IF j.sp_o_stream = <<>> THEN [j EXCEPT !.polls = j.polls + 1, !.result = "end"]
    ELSE IF j.s_p_stream = <<>>
    THEN [j EXCEPT !.polls = j.polls + 1, !.result = "UnexpectedEof"]
    ELSE LET sp == Head(j.sp_o_stream)[1]
             o == Head(j.sp_o_stream)[2]
             s == Head(j.s_p_stream)[1]
             p == Head(j.s_p_stream)[2]
         IN  [j EXCEPT !.sp_o_stream = Tail(j.sp_o_stream),
                       !.s_p_stream = Tail(j.s_p_stream),
                       !.last_s_p = <<s, p>>, !.last_sp = sp,
                       !.polls = j.polls + 1, !.result = "item",
                       !.out = Append(j.out, IdTriple(s, p, o))]

\* a join that advances s_p by as many entries as sp has risen
poll_next_advance_by_jump(j) ==
    IF j.sp_o_stream = <<>> THEN [j EXCEPT !.polls = j.polls + 1, !.result = "end"]
    ELSE LET sp == Head(j.sp_o_stream)[1]
             o == Head(j.sp_o_stream)[2]
             jump == sp - j.last_sp
         IN  IF sp > j.last_sp
             THEN IF Len(j.s_p_stream) < jump
                  THEN [j EXCEPT !.polls = j.polls + 1, !.result = "UnexpectedEof"]
                  ELSE LET s == j.s_p_stream[jump][1]
                           p == j.s_p_stream[jump][2]
                       IN  [j EXCEPT !.sp_o_stream = Tail(j.sp_o_stream),
                                     !.s_p_stream = SubSeq(j.s_p_stream, jump + 1,
                                                           Len(j.s_p_stream)),
                                     !.last_s_p = <<s, p>>, !.last_sp = sp,
                                     !.polls = j.polls + 1, !.result = "item",
                                     !.out = Append(j.out, IdTriple(s, p, o))]
             ELSE [j EXCEPT !.sp_o_stream = Tail(j.sp_o_stream),
                            !.polls = j.polls + 1, !.result = "item",
                            !.out = Append(j.out,
                                           IdTriple(j.last_s_p[1], j.last_s_p[2], o))]

\* a join that reports the s_p entries left over when sp_o has ended
poll_next_strict_end(j) ==
    IF j.sp_o_stream = <<>> /\ j.s_p_stream # <<>>
    THEN [j EXCEPT !.polls = j.polls + 1, !.result = "UnexpectedEof"]
    ELSE poll_next_always_advance(
             IF j.sp_o_stream # <<>> /\ Head(j.sp_o_stream)[1] <= j.last_sp
             THEN [j EXCEPT !.s_p_stream = <<j.last_s_p>> \o j.s_p_stream]
             ELSE j)

\* a join that ends quietly when s_p runs out
poll_next_quiet_end(j) ==
    IF j.sp_o_stream = <<>> THEN [j EXCEPT !.polls = j.polls + 1, !.result = "end"]
    ELSE LET sp == Head(j.sp_o_stream)[1]
             o == Head(j.sp_o_stream)[2]
         IN  IF sp > j.last_sp
             THEN IF j.s_p_stream = <<>>
                  THEN [j EXCEPT !.polls = j.polls + 1, !.result = "end"]
                  ELSE LET s == Head(j.s_p_stream)[1]
                           p == Head(j.s_p_stream)[2]
                       IN  [j EXCEPT !.sp_o_stream = Tail(j.sp_o_stream),
                                     !.s_p_stream = Tail(j.s_p_stream),
                                     !.last_s_p = <<s, p>>, !.last_sp = sp,
                                     !.polls = j.polls + 1, !.result = "item",
                                     !.out = Append(j.out, IdTriple(s, p, o))]
             ELSE [j EXCEPT !.sp_o_stream = Tail(j.sp_o_stream),
                            !.polls = j.polls + 1, !.result = "item",
                            !.out = Append(j.out,
                                           IdTriple(j.last_s_p[1], j.last_s_p[2], o))]

\* BaseTripleStream::poll_next over streams that are ready: the result is an
\* item, the end of the stream, or the error
poll_next(j) ==
    IF j.sp_o_stream = <<>> THEN [j EXCEPT !.polls = j.polls + 1, !.result = "end"]
    ELSE LET sp == Head(j.sp_o_stream)[1]
             o == Head(j.sp_o_stream)[2]
         IN  IF sp > j.last_sp
             THEN IF j.s_p_stream = <<>>
                  THEN [j EXCEPT !.polls = j.polls + 1, !.result = "UnexpectedEof"]
                  ELSE LET s == Head(j.s_p_stream)[1]
                           p == Head(j.s_p_stream)[2]
                       IN  [j EXCEPT !.sp_o_stream = Tail(j.sp_o_stream),
                                     !.s_p_stream = Tail(j.s_p_stream),
                                     !.last_s_p = <<s, p>>, !.last_sp = sp,
                                     !.polls = j.polls + 1, !.result = "item",
                                     !.out = Append(j.out, IdTriple(s, p, o))]
             ELSE [j EXCEPT !.sp_o_stream = Tail(j.sp_o_stream),
                            !.polls = j.polls + 1, !.result = "item",
                            !.out = Append(j.out,
                                           IdTriple(j.last_s_p[1], j.last_s_p[2], o))]

\* a poll that takes the sp_o entry before it finds the s_p stream not ready
poll_next_pending_consuming(j, sp_o_ready, s_p_ready) ==
    IF ~sp_o_ready THEN [j EXCEPT !.polls = j.polls + 1, !.result = "pending"]
    ELSE IF j.sp_o_stream # <<>> /\ Head(j.sp_o_stream)[1] > j.last_sp /\ ~s_p_ready
    THEN [j EXCEPT !.sp_o_stream = Tail(j.sp_o_stream),
                   !.polls = j.polls + 1, !.result = "pending"]
    ELSE poll_next(j)

\* BaseTripleStream::poll_next over streams that may not be ready: a peek
\* that is Pending makes the poll Pending; the s_p stream is peeked only
\* when the sp of the next sp_o entry is greater than last_sp
poll_next_pending(j, sp_o_ready, s_p_ready) ==
    IF ~sp_o_ready THEN [j EXCEPT !.polls = j.polls + 1, !.result = "pending"]
    ELSE IF j.sp_o_stream # <<>> /\ Head(j.sp_o_stream)[1] > j.last_sp /\ ~s_p_ready
    THEN [j EXCEPT !.polls = j.polls + 1, !.result = "pending"]
    ELSE poll_next(j)

\* open_base_triple_stream over the files of two adjacency lists
open_base_triple_stream(s_p_files, sp_o_files) ==
    NewBaseTripleStream(adjacency_list_stream_pairs(s_p_files.bits, s_p_files.nums),
                        adjacency_list_stream_pairs(sp_o_files.bits, sp_o_files.nums))

BaseInit ==
    /\ base = [builder |-> NewTripleFileBuilder, added |-> <<>>, rejected |-> NoTriple]
    /\ join = [stream |-> NoStream, cut |-> 0, cut_o |-> 0]

\* BaseLayerFileBuilderPhase2::add_triple; a triple that is not greater than
\* the last one ends the builder
BaseAddTriple ==
    /\ base.builder.status = "building"
    /\ Len(base.added) < MaxTriples
    /\ \E t \in BaseTriples \cup OutOfCountTriples :
          LET b == TripleFileAdd(base.builder, t)
          IN  base' = [builder |-> b,
                       added |-> IF b.status = "panic" THEN base.added
                                 ELSE Append(base.added, t),
                       rejected |-> IF b.status = "panic" THEN t ELSE NoTriple]
    /\ UNCHANGED <<storeVars, disk, fin, adj, join, dict, phase1>>

\* BaseLayerFileBuilderPhase2::finalize
BaseFinalize ==
    /\ base.builder.status = "building"
    /\ base' = [base EXCEPT !.builder = TripleFileFinalize(base.builder)]
    /\ UNCHANGED <<storeVars, disk, fin, adj, join, dict, phase1>>

\* open_base_triple_stream over the sp_o files of the layer and s_p files
\* that are the layer's own (cut = 0) or lack their last cut entries
OpenBaseTripleStream ==
    /\ base.builder.status = "finalized"
    /\ ~join.stream.open
    /\ \E cut \in 0..Len(base.builder.s_p.nums) :
          join' = [stream |->
                      open_base_triple_stream(
                          CutFiles(base.builder.s_p, Len(base.builder.s_p.nums) - cut),
                          base.builder.sp_o),
                   cut |-> cut,
                   cut_o |-> 0]
    /\ UNCHANGED <<storeVars, disk, fin, adj, base, dict, phase1>>

\* one poll of the stream; a stream that has ended or failed is not polled
\* again
BasePoll ==
    /\ join.stream.open
    /\ join.stream.result \in {"none", "item"}
    /\ join' = [join EXCEPT !.stream = poll_next(join.stream)]
    /\ UNCHANGED <<storeVars, disk, fin, adj, base, dict, phase1>>

\* add_triple of a layer with few triples
JoinAddTriple ==
    /\ Len(base.added) < MaxJoinTriples
    /\ BaseAddTriple

\* open_base_triple_stream over s_p files and sp_o files that are the
\* layer's own or lack their last entry
JoinOpen ==
    /\ base.builder.status = "finalized"
    /\ ~join.stream.open
    /\ \E cut \in 0..MaxCut, cut_o \in 0..MaxCut :
          /\ cut <= Len(base.builder.s_p.nums)
          /\ cut_o <= Len(base.builder.sp_o.nums)
          /\ join' = [stream |->
                         open_base_triple_stream(
                             CutFiles(base.builder.s_p, Len(base.builder.s_p.nums) - cut),
                             CutFiles(base.builder.sp_o, Len(base.builder.sp_o.nums) - cut_o)),
                      cut |-> cut,
                      cut_o |-> cut_o]
    /\ UNCHANGED <<storeVars, disk, fin, adj, base, dict, phase1>>

\* one poll of the stream, with each of the two file streams ready or not;
\* the stream may be polled again after a Pending, after its end and after
\* an error
JoinPoll ==
    /\ join.stream.open
    /\ join.stream.polls < MaxPolls
    /\ \E sp_o_ready \in BOOLEAN, s_p_ready \in BOOLEAN :
          join' = [join EXCEPT
                      !.stream = poll_next_pending(join.stream, sp_o_ready, s_p_ready)]
    /\ UNCHANGED <<storeVars, disk, fin, adj, base, dict, phase1>>

-----------------------------------------------------------------------------
(* PFC dictionaries: the blocks file as a sequence of bytes, positions from 0 *)

BLOCK_SIZE == 8

\* the strings handed to a dictionary builder, as bytes; one holds a NUL
DictStrings ==
    {<<>>, <<1>>, <<1, 0, 1>>, <<1, 1>>, <<1, 1, 1>>, <<1, 1, 2>>, <<1, 2>>, <<1, 2, 1>>,
     <<2>>, <<2, 1>>, <<2, 2>>}

\* what a read that panics leaves in place of a string
Panicked == <<-1>>

write_nul_terminated_bytes(bytes) == bytes \o <<0>>

\* the two byte layouts a vbyte code can have: the MSB marks the last byte of
\* a code, or it marks every byte but the last
VbyteLayouts == {"msb_on_last", "msb_on_others"}

\* vbyte encoding of a value below 128: one byte, which is the last
vbyte_encode(layout, n) == IF layout = "msb_on_last" THEN <<n + 128>> ELSE <<n>>

\* vbyte::decode at pos of a one-byte code: the value is the low 7 bits
vbyte_decode(data, pos) == [value |-> data[pos + 1] % 128, len |-> 1]

RECURSIVE find_common_prefix(_, _)
find_common_prefix(a, b) ==
    IF a = <<>> \/ b = <<>> \/ Head(a) # Head(b) THEN 0
    ELSE 1 + find_common_prefix(Tail(a), Tail(b))

\* write_padding: zero bytes up to the next multiple of width
write_padding(size, width) == Repeat(0, (width - (size % width)) % width)

\* write_u64 of a value below 256, big-endian
write_u64(n) == Repeat(0, 7) \o <<n>>

\* BigEndian::read_u64
read_u64(bytes) ==
    LET RECURSIVE value(_)
        value(k) == IF k = 0 THEN 0 ELSE value(k - 1) * 256 + bytes[k]
    IN  value(8)

\* PfcDictFileBuilder::new
NewPfcDictFileBuilder ==
    [status |-> "building", blocks |-> <<>>, count |-> 0, size |-> 0, last |-> <<>>,
     index |-> <<>>, vbyte |-> "msb_on_last"]

\* PfcDictFileBuilder::add: the first string of a block is written whole, the
\* others as the length of the prefix shared with the last string and the rest
PfcDictFileBuilder_add(b, s) ==
    IF b.count % BLOCK_SIZE = 0
    THEN LET written == write_nul_terminated_bytes(s)
         IN  [b EXCEPT !.index = IF b.count # 0 THEN Append(b.index, b.size) ELSE b.index,
                       !.blocks = b.blocks \o written,
                       !.count = b.count + 1,
                       !.size = b.size + Len(written),
                       !.last = s]
    ELSE LET common == find_common_prefix(b.last, s)
             postfix == SubSeq(s, common + 1, Len(s))
             written == vbyte_encode(b.vbyte, common) \o write_nul_terminated_bytes(postfix)
         IN  [b EXCEPT !.blocks = b.blocks \o written,
                       !.count = b.count + 1,
                       !.size = b.size + Len(written),
                       !.last = s]

\* PfcDictFileBuilder::finalize: the blocks file gets its padding and the
\* count, the offsets file the index
PfcDictFileBuilder_finalize(b) ==
    [b EXCEPT !.status = "finalized",
              !.blocks = b.blocks \o write_padding(b.size, 8) \o write_u64(b.count)]

\* PfcDict::parse
PfcDict_parse(blocks, offsets) ==
    [n_strings |-> read_u64(SubSeq(blocks, Len(blocks) - 7, Len(blocks))),
     block_offsets |-> offsets,
     blocks |-> blocks]

\* iter().position(|&b| b == 0) on data[from..]: -1 for None
position_of_nul(data, from) ==
    IF \E i \in (from + 1)..Len(data) : data[i] = 0
    THEN (CHOOSE i \in (from + 1)..Len(data) :
              data[i] = 0 /\ \A k \in (from + 1)..(i - 1) : data[k] # 0) - (from + 1)
    ELSE -1

\* PfcBlock::head of the block that starts at offset start
PfcBlock_head(data, start) ==
    LET first_end == position_of_nul(data, start)
    IN  IF first_end < 0 THEN Panicked ELSE SubSeq(data, start + 1, start + first_end)

\* PfcBlockIterator::next after the head, run until the count of strings
\* yielded reaches n_strings
RECURSIVE PfcBlockIteratorFrom(_, _, _, _, _)
PfcBlockIteratorFrom(data, pos, string, yielded, n_strings) ==
    IF yielded >= n_strings THEN <<>>
    ELSE IF pos >= Len(data) THEN <<Panicked>>
    ELSE LET decoded == vbyte_decode(data, pos)
             truncated == SubSeq(string, 1, IF decoded.value < Len(string)
                                            THEN decoded.value ELSE Len(string))
             from == pos + decoded.len
             postfix_len == position_of_nul(data, from)
         IN  IF postfix_len < 0 THEN <<Panicked>>
             ELSE LET next == truncated \o SubSeq(data, from + 1, from + postfix_len)
                  IN  <<next>> \o PfcBlockIteratorFrom(data, from + postfix_len + 1, next,
                                                       yielded + 1, n_strings)

\* PfcBlock::strings, collected: the head is yielded whatever n_strings is
PfcBlock_strings(data, start, n_strings) ==
    LET head == PfcBlock_head(data, start)
    IN  IF head = Panicked THEN <<Panicked>>
        ELSE <<head>> \o PfcBlockIteratorFrom(data, start + Len(head) + 1, head, 1, n_strings)

\* PfcBlock::get
PfcBlock_get(data, start, n_strings, index) ==
    IF index < n_strings
    THEN LET strings == PfcBlock_strings(data, start, n_strings)
         IN  IF index + 1 <= Len(strings) THEN Some(strings[index + 1]) ELSE None
    ELSE None

\* the offset at which block block_index starts
BlockOffset(d, block_index) ==
    IF block_index = 0 THEN 0 ELSE d.block_offsets[block_index]

\* PfcDict::get: the block is parsed as a full one
PfcDict_get(d, ix) ==
    IF ix < d.n_strings
    THEN PfcBlock_get(d.blocks, BlockOffset(d, ix \div BLOCK_SIZE), BLOCK_SIZE, ix % BLOCK_SIZE)
    ELSE None

\* the binary search of PfcDict::id over the block heads
RECURSIVE IdSearch(_, _, _, _)
IdSearch(d, s, min, max) ==
    IF min > max THEN [kind |-> "block", found |-> max]
    ELSE LET mid == (min + max) \div 2
             head == PfcBlock_head(d.blocks, BlockOffset(d, mid))
         IN  IF StrLess(s, head)
             THEN IF mid = 0 THEN [kind |-> "none"] ELSE IdSearch(d, s, min, mid - 1)
             ELSE IF StrLess(head, s) THEN IdSearch(d, s, mid + 1, max)
             ELSE [kind |-> "head", id |-> mid * BLOCK_SIZE]

\* PfcDict::id
PfcDict_id(d, s) ==
    LET search == IdSearch(d, s, 0, Len(d.block_offsets))
    IN  IF search.kind = "none" THEN None
        ELSE IF search.kind = "head" THEN Some(search.id)
        ELSE LET found == search.found
                 remainder == d.n_strings - found * BLOCK_SIZE
                 strings == PfcBlock_strings(d.blocks, BlockOffset(d, found),
                                             IF remainder >= BLOCK_SIZE THEN BLOCK_SIZE
                                             ELSE remainder)
                 at == IndexOf(strings, s)
             IN  IF at = 0 THEN None ELSE Some(found * BLOCK_SIZE + at - 1)

\* PfcDictIterator::next, collected: the blocks 0..block_offsets.len() in turn,
\* each parsed with the number of strings that remain, at most BLOCK_SIZE
RECURSIVE PfcDictIteratorFrom(_, _)
PfcDictIteratorFrom(d, block_index) ==
    IF block_index >= Len(d.block_offsets) + 1 THEN <<>>
    ELSE LET remainder == d.n_strings - block_index * BLOCK_SIZE
         IN  PfcBlock_strings(d.blocks, BlockOffset(d, block_index),
                              IF remainder >= BLOCK_SIZE THEN BLOCK_SIZE ELSE remainder)
             \o PfcDictIteratorFrom(d, block_index + 1)

\* PfcDict::strings
PfcDict_strings(d) == PfcDictIteratorFrom(d, 0)

\* the length of a dictionary counted by running over its strings
PfcDict_len_by_strings(d) == Len(PfcDict_strings(d))

\* PfcDict::len
PfcDict_len(d) == d.n_strings

\* PfcDecoder::decode, run over the bytes of a blocks file from pos on: a 0
\* byte at the start of what is left ends the stream
RECURSIVE PfcDecoderFrom(_, _, _, _)
PfcDecoderFrom(data, at, last, index) ==
    LET pos == position_of_nul(data, at)
    IN  IF pos <= 0 THEN <<>>
        ELSE IF index % 8 = 0
        THEN LET head == SubSeq(data, at + 1, at + pos)
             IN  <<head>> \o PfcDecoderFrom(data, at + pos + 1, head, index + 1)
        ELSE LET decoded == vbyte_decode(data, at)
                 b == SubSeq(data, at + decoded.len + 1, at + pos)
             IN  IF decoded.value > Len(last) THEN <<Panicked>>
                 ELSE LET full == SubSeq(last, 1, decoded.value) \o b
                      IN  <<full>> \o PfcDecoderFrom(data, at + pos + 1, full, index + 1)

\* dict_reader_to_stream, collected
dict_reader_to_stream(r) == PfcDecoderFrom(r, 0, <<>>, 0)

\* the dictionary parsed from the files of a finalized builder
DictOf(b) == PfcDict_parse(b.blocks, b.index)

PfcInit ==
    dict = [builder |-> NewPfcDictFileBuilder, added |-> <<>>]

\* PfcDictFileBuilder::add with a string greater than the last one added; the
\* layout of the vbyte codes is fixed with the first string
PfcAdd ==
    /\ dict.builder.status = "building"
    /\ Len(dict.added) < MaxStrings
    /\ \E s \in DictStrings, layout \in VbyteLayouts :
          /\ dict.added = <<>> \/ StrLess(dict.builder.last, s)
          /\ dict.added = <<>> \/ layout = dict.builder.vbyte
          /\ dict' = [builder |->
                          PfcDictFileBuilder_add([dict.builder EXCEPT !.vbyte = layout], s),
                      added |-> Append(dict.added, s)]
    /\ UNCHANGED <<storeVars, disk, fin, adj, base, join, phase1>>

PfcFinalize ==
    /\ dict.builder.status = "building"
    /\ dict' = [dict EXCEPT !.builder = PfcDictFileBuilder_finalize(dict.builder)]
    /\ UNCHANGED <<storeVars, disk, fin, adj, base, join, phase1>>

-----------------------------------------------------------------------------
(* Phase 1 of the base layer builder: the node, predicate and value dictionaries *)

Kinds == {"node", "predicate", "value"}

\* the strings handed to add_node, add_predicate and add_value
Phase1Strings == {StrA, StrAA, StrB}

\* the batches handed to add_nodes, add_predicates and add_values
Phase1Batches == {<<a, b>> : a, b \in Phase1Strings}

\* a dictionary set builder that hands every string on to the dictionary
dictionary_add_unchecked(b, s) == [ok |-> TRUE, builder |-> PfcDictFileBuilder_add(b, s)]

\* DictionarySetFileBuilder::add_node / add_predicate / add_value on the
\* dictionary builder b of that kind: a string that is not greater than the
\* last one of the kind panics, any other goes to PfcDictFileBuilder::add
dictionary_add(b, s) ==
    IF b.count > 0 /\ ~StrLess(b.last, s)
    THEN [ok |-> FALSE, builder |-> b]
    ELSE [ok |-> TRUE, builder |-> PfcDictFileBuilder_add(b, s)]

\* add_nodes / add_predicates / add_values: the strings one after another,
\* up to the first that panics
RECURSIVE dictionary_add_all(_, _)
dictionary_add_all(b, strings) ==
    IF strings = <<>> THEN [ok |-> TRUE, builder |-> b, rejected |-> <<>>]
    ELSE LET r == dictionary_add(b, Head(strings))
         IN  IF r.ok THEN dictionary_add_all(r.builder, Tail(strings))
             ELSE [ok |-> FALSE, builder |-> b, rejected |-> Head(strings)]

NoRejection == [kind |-> "none"]

\* BaseLayerFileBuilder::from_files
Phase1Init ==
    phase1 = [status |-> "phase1",
              builders |-> [k \in Kinds |-> NewPfcDictFileBuilder],
              counts |-> [k \in Kinds |-> 0],
              rejection |-> NoRejection]

\* add_node, add_predicate, add_value
Phase1Add ==
    /\ phase1.status = "phase1"
    /\ \E k \in Kinds, s \in Phase1Strings :
          LET r == dictionary_add(phase1.builders[k], s)
          IN  phase1' = [phase1 EXCEPT
                  !.status = IF r.ok THEN "phase1" ELSE "panic",
                  !.builders[k] = r.builder,
                  !.rejection = IF r.ok THEN NoRejection
                                ELSE [kind |-> k, string |-> s,
                                      before |-> phase1.builders[k]]]
    /\ UNCHANGED <<storeVars, disk, fin, adj, base, join, dict>>

\* add_nodes, add_predicates, add_values
Phase1AddAll ==
    /\ phase1.status = "phase1"
    /\ \E k \in Kinds, strings \in Phase1Batches :
          LET r == dictionary_add_all(phase1.builders[k], strings)
          IN  phase1' = [phase1 EXCEPT
                  !.status = IF r.ok THEN "phase1" ELSE "panic",
                  !.builders[k] = r.builder,
                  !.rejection = IF r.ok THEN NoRejection
                                ELSE [kind |-> k, string |-> r.rejected,
                                      before |-> r.builder]]
    /\ UNCHANGED <<storeVars, disk, fin, adj, base, join, dict>>

\* into_phase2: the three dictionaries are finalized and parsed, and their
\* lengths become the counts of phase 2
IntoPhase2 ==
    /\ phase1.status = "phase1"
    /\ LET finalized == [k \in Kinds |-> PfcDictFileBuilder_finalize(phase1.builders[k])]
       IN  phase1' = [phase1 EXCEPT
               !.status = "phase2",
               !.builders = finalized,
               !.counts = [k \in Kinds |-> PfcDict_len(DictOf(finalized[k]))]]
    /\ base' = [builder |-> [NewTripleFileBuilder EXCEPT
                                !.nv = phase1'.counts["node"] + phase1'.counts["value"],
                                !.pc = phase1'.counts["predicate"]],
                added |-> <<>>,
                rejected |-> NoTriple]
    /\ UNCHANGED <<storeVars, disk, fin, adj, join, dict>>

-----------------------------------------------------------------------------
(* The chains of futures of into_phase2 and of the two finalize calls, one
   step of a chain at a time *)

\* a map() that reads the file when it is called
FileMapCallEager(file) == [read |-> TRUE, data |-> file]

\* FileBackedStore::map: the future is lazy, nothing is read by the call
FileMapCall(file) == [read |-> FALSE, data |-> <<>>]

\* the first poll of the future map() returned: the file is read as it is now
FileMapPoll(m, file) == IF m.read THEN m ELSE [read |-> TRUE, data |-> file]

NoMap == [read |-> FALSE, data |-> <<>>]

\* the dictionary builders into_phase2 is called on
FinDictionaries ==
    {[k \in Kinds |-> dictionary_add_all(NewPfcDictFileBuilder, batch[k]).builder] :
        batch \in [Kinds -> {<<>>, <<StrA>>, <<StrA, StrB>>}]}

\* the triple writers finalize is called on
FinTripleBuilders ==
    {TripleFileAdd(TripleFileAdd(NewTripleFileBuilder, t), u) :
        t \in BaseTriples, u \in BaseTriples}
    \cup {NewTripleFileBuilder}

\* the adjacency list builders finalize is called on
FinAdjacencyBuilders ==
    {Push(Push(NewAdjacencyListBuilder, l, 1), m, 2) : l \in 1..MaxLeft, m \in 1..MaxLeft}
    \cup {NewAdjacencyListBuilder}

FinIdle ==
    [handler |-> "none", pc |-> 0,
     dicts |-> [k \in Kinds |-> NewPfcDictFileBuilder],
     maps |-> [k \in Kinds |-> NoMap],
     counts |-> [k \in Kinds |-> 0],
     triples |-> NewTripleFileBuilder,
     o_ps |-> NewAdjacencyListBuilder,
     list |-> NewAdjacencyListBuilder,
     indexed |-> <<>>]

FinInit == fin = FinIdle

\* a call of into_phase2, of BaseLayerFileBuilderPhase2::finalize or of
\* AdjacencyListBuilder::finalize
FinCall ==
    /\ fin.handler = "none"
    /\ \/ \E d \in FinDictionaries :
             fin' = [FinIdle EXCEPT !.handler = "into_phase2", !.dicts = d]
       \/ \E t \in {b \in FinTripleBuilders : b.status = "building"} :
             fin' = [FinIdle EXCEPT !.handler = "phase2_finalize", !.triples = t]
       \/ \E a \in {b \in FinAdjacencyBuilders : b.status = "building"} :
             fin' = [FinIdle EXCEPT !.handler = "adjacency_finalize", !.list = a]
    /\ UNCHANGED <<storeVars, disk, adj, base, join, dict, phase1>>

\* into_phase2, one step of its chain: map() of the dictionary files is
\* called, the dictionary builders are finalized, the maps are joined, the
\* dictionaries are parsed and counted
IntoPhase2Step ==
    /\ fin.handler = "into_phase2"
    /\ fin.pc < 4
    /\ fin' = CASE fin.pc = 0 ->
                     [fin EXCEPT !.pc = 1,
                                 !.maps = [k \in Kinds |-> FileMapCall(fin.dicts[k].blocks)]]
                 [] fin.pc = 1 ->
                     [fin EXCEPT !.pc = 2,
                                 !.dicts = [k \in Kinds |->
                                               PfcDictFileBuilder_finalize(fin.dicts[k])]]
                 [] fin.pc = 2 ->
                     [fin EXCEPT !.pc = 3,
                                 !.maps = [k \in Kinds |->
                                              FileMapPoll(fin.maps[k], fin.dicts[k].blocks)]]
                 [] OTHER ->
                     IF \E k \in Kinds : Len(fin.maps[k].data) < 8
                     THEN [fin EXCEPT !.pc = 4, !.handler = "panic"]
                     ELSE [fin EXCEPT !.pc = 4,
                                      !.counts = [k \in Kinds |->
                                          PfcDict_len(PfcDict_parse(fin.maps[k].data,
                                                                    fin.dicts[k].index))]]
    /\ UNCHANGED <<storeVars, disk, adj, base, join, dict, phase1>>

\* BaseLayerFileBuilderPhase2::finalize, one step of its chain: the triple
\* writer is finalized, then build_indexes reads the sp_o files
Phase2FinalizeStep ==
    /\ fin.handler = "phase2_finalize"
    /\ fin.pc < 2
    /\ fin' = IF fin.pc = 0
              THEN [fin EXCEPT !.pc = 1, !.triples = TripleFileFinalize(fin.triples)]
              ELSE [fin EXCEPT !.pc = 2, !.o_ps = build_o_ps(fin.triples.sp_o)]
    /\ UNCHANGED <<storeVars, disk, adj, base, join, dict, phase1>>

\* AdjacencyListBuilder::finalize, one step of its chain: the last bit is
\* pushed and the bit array and nums are finalized, then build_bitindex reads
\* the bits file
AdjacencyFinalizeStep ==
    /\ fin.handler = "adjacency_finalize"
    /\ fin.pc < 2
    /\ fin' = IF fin.pc = 0
              THEN [fin EXCEPT !.pc = 1, !.list = Finalize(fin.list)]
              ELSE [fin EXCEPT !.pc = 2, !.indexed = fin.list.bits]
    /\ UNCHANGED <<storeVars, disk, adj, base, join, dict, phase1>>

-----------------------------------------------------------------------------
(* Specifications *)

Init ==
    /\ LayersInit /\ LabelsInit /\ BlobsInit /\ AdjInit /\ BaseInit /\ PfcInit /\ Phase1Init
    /\ DiskInit
    /\ FinInit

LayersNext ==
    \/ NewBuilder
    \/ FromParent
    \/ AddStringTriple
    \/ AddIdTriple
    \/ RemoveStringTriple
    \/ RemoveIdTriple
    \/ CommitBuilder

\* layers built and committed one after another
Spec == Init /\ [][LayersNext]_vars

LabelNext ==
    \/ CreateLabel
    \/ GetLabel
    \/ SetLabelOption

\* label store calls, one at a time
SpecLabel == Init /\ [][LabelNext]_vars

LabelConcurrentNext ==
    \/ CreateLabel
    \/ GetLabel
    \/ SetLabelRead
    \/ SetLabelWrite

\* label store calls of two clients, interleaved at set_label_option's
\* suspension point between reading the label and writing it
SpecLabelConcurrent == Init /\ [][LabelConcurrentNext]_vars

PublishNext ==
    \/ CreateLabel
    \/ CreateLayerBuilder
    \/ CommitStage
    \/ DropBuilder
    \/ PublishLayer

\* layers being committed while labels are set
SpecPublish == Init /\ [][PublishNext]_vars

AdjacencyNext ==
    \/ AdjPush
    \/ AdjFinalize

DiskNext ==
    \/ DiskCreateDirectory
    \/ DiskWriteFile
    \/ DiskImportLayers

\* calls on one DirectoryLayerStore
SpecDisk == Init /\ [][DiskNext]_vars

\* pack_layer_parents on archives, one call after another
SpecPack == Init /\ [][DiskPackLayerParents]_vars

JoinNext ==
    \/ JoinAddTriple
    \/ BaseFinalize
    \/ JoinOpen
    \/ JoinPoll

\* the forward files of a small base layer joined by a BaseTripleStream whose
\* file streams are not always ready
SpecJoin == Init /\ [][JoinNext]_vars

FinNext ==
    \/ FinCall
    \/ IntoPhase2Step
    \/ Phase2FinalizeStep
    \/ AdjacencyFinalizeStep

\* the finalizing chains, step by step
SpecFinalize == Init /\ [][FinNext]_vars

\* one adjacency list builder: pushes, then finalize
SpecAdjacency == Init /\ [][AdjacencyNext]_vars

BaseNext ==
    \/ BaseAddTriple
    \/ BaseFinalize
    \/ OpenBaseTripleStream
    \/ BasePoll

\* the triples of one base layer: added in phase 2, finalized, then streamed
\* from the forward files
SpecBase == Init /\ [][BaseNext]_vars

PfcNext ==
    \/ PfcAdd
    \/ PfcFinalize

\* one dictionary: strings added in ascending order, then finalize
SpecPfc == Init /\ [][PfcNext]_vars

Phase1Next ==
    \/ Phase1Add
    \/ Phase1AddAll
    \/ IntoPhase2

\* phase 1 of one base layer builder: strings of the three kinds, then
\* into_phase2
SpecPhase1 == Init /\ [][Phase1Next]_vars

\* add_node, add_predicate, add_value of a builder that is handed few strings
LifeAdd ==
    /\ phase1.builders["node"].count + phase1.builders["predicate"].count
          + phase1.builders["value"].count < MaxLifeStrings
    /\ Phase1Add

\* add_triple on the triple writer whatever the phase of the builder
LifeAddTripleAnyPhase == BaseAddTriple

\* add_triple of the phase 2 builder into_phase2 returned
LifeAddTriple ==
    /\ phase1.status = "phase2"
    /\ BaseAddTriple

\* finalize of the phase 2 builder into_phase2 returned
LifeFinalize ==
    /\ phase1.status = "phase2"
    /\ BaseFinalize

LifecycleNext ==
    \/ LifeAdd
    \/ IntoPhase2
    \/ LifeAddTriple
    \/ LifeFinalize

\* one base layer builder from from_files to finalize
SpecLifecycle == Init /\ [][LifecycleNext]_vars

-----------------------------------------------------------------------------
(* Properties of committed layer stacks *)

\* the node, predicate and value ids a layer stack knows
RECURSIVE StackNodeIds(_, _)
StackNodeIds(ls, i) ==
    IF i = 0 THEN {}
    ELSE {subject_id(ls, i, s) : s \in Range(ls[i].node_dictionary)}
         \cup StackNodeIds(ls, ls[i].parent)

RECURSIVE StackValueIds(_, _)
StackValueIds(ls, i) ==
    IF i = 0 THEN {}
    ELSE {object_value_id(ls, i, s) : s \in Range(ls[i].value_dictionary)}
         \cup StackValueIds(ls, ls[i].parent)

RECURSIVE StackPredicateIds(_, _)
StackPredicateIds(ls, i) ==
    IF i = 0 THEN {}
    ELSE {predicate_id(ls, i, s) : s \in Range(ls[i].predicate_dictionary)}
         \cup StackPredicateIds(ls, ls[i].parent)

\* the string triples visible through layer i by the fold over its parents:
\* the layer's string additions and what its parent shows, less the removals
\* the layer lists (the requested removals that its parent shows)
RECURSIVE VisibleStrings(_, _)
VisibleStrings(ls, i) ==
    IF i = 0 THEN {}
    ELSE LET below == VisibleStrings(ls, ls[i].parent)
         IN  (ls[i].input.additions \cup below) \ (ls[i].input.removals \cap below)

\* layer i and all its ancestors were built from string triples only
RECURSIVE OnlyStringTriples(_, _)
OnlyStringTriples(ls, i) ==
    \/ i = 0
    \/ /\ ls[i].input.id_additions = {}
       /\ ls[i].input.id_removals = {}
       /\ OnlyStringTriples(ls, ls[i].parent)

\* C1: through every layer of a stack built from string triples, a string
\* triple exists exactly when it is in (additions(L) \cup visible(parent(L)))
\* \ removals(L), folded down to the base layer.
C1_VisibleIsFold ==
    \A i \in 1..Len(layers) :
        OnlyStringTriples(layers, i) =>
            \A st \in QueryTriples :
                string_triple_exists(layers, i, st) <=> st \in VisibleStrings(layers, i)

\* C1 witness: a triple added in the base layer, removed in its child and
\* added again in the grandchild is visible in the grandchild only.
C1_Witness ==
    /\ Len(layers) = 3
    /\ layers[1].parent = 0 /\ layers[2].parent = 1 /\ layers[3].parent = 2
    /\ OnlyStringTriples(layers, 3)
    /\ \E st \in StringTriples :
          /\ st \in layers[1].input.additions
          /\ st \in layers[2].input.removals
          /\ st \in layers[3].input.additions
          /\ string_triple_exists(layers, 1, st)
          /\ ~string_triple_exists(layers, 2, st)
          /\ string_triple_exists(layers, 3, st)

\* C7: every triple a committed child layer lists for removal is visible in
\* its parent stack; a requested removal that is not is absent from the
\* negative side.
C7_RemovalsInParent ==
    \A i \in 1..Len(layers) :
        /\ \A t \in Range(layers[i].neg) :
              layers[i].parent # 0 /\ triple_exists(layers, layers[i].parent, t)
        /\ \A t \in layers[i].input.id_removals :
              ~triple_exists(layers, layers[i].parent, t) => t \notin Range(layers[i].neg)
        /\ \A st \in layers[i].input.removals :
              ~string_triple_exists(layers, layers[i].parent, st) =>
                  ~\E t \in Range(layers[i].neg) :
                      t = IdTriple(subject_id(layers, layers[i].parent, st.subject),
                                   predicate_id(layers, layers[i].parent, st.predicate),
                                   object_id(layers, layers[i].parent, st.object))

\* C7 witness: a child committed after a string removal whose strings the
\* parent knows but whose triple it does not show, and an id removal the
\* parent does not show; the layer lists no removal.
C7_Witness ==
    \E i \in 1..Len(layers) :
        /\ layers[i].parent # 0
        /\ \E st \in layers[i].input.removals :
              /\ IsFullyResolved(
                     string_triple_to_partially_resolved(layers, layers[i].parent, st))
              /\ ~string_triple_exists(layers, layers[i].parent, st)
        /\ \E t \in layers[i].input.id_removals :
              ~triple_exists(layers, layers[i].parent, t)
        /\ layers[i].neg = <<>>

C9_StrictlyAscending ==
    /\ lastCommit.status # "none" =>
          /\ IsStrictlyAscending(lastCommit.add_triples)
          /\ IsStrictlyAscending(lastCommit.removals)
    /\ \A i \in 1..Len(layers) :
          IsStrictlyAscending(layers[i].pos) /\ IsStrictlyAscending(layers[i].neg)

\* C9 witness: a commit whose additions held a string triple and an id
\* triple resolving to the same ids, handed on once.
C9_Witness ==
    /\ lastCommit.status = "ok"
    /\ lastCommit.input.additions # <<>>
    /\ lastCommit.input.id_additions # <<>>
    /\ Len(lastCommit.add_triples) = 1
    /\ Len(lastCommit.additions) = 2

\* C10: the k-th new node gets id parent.node_count + parent.value_count + k,
\* the k-th new predicate parent.predicate_count + k, the k-th new value
\* parent.node_count + parent.value_count + new_node_count + k; new ids exceed
\* the parent's ids of their kind and new value ids exceed new node ids.
C10_IdSpaceExtendsParent ==
    lastCommit.status # "none" =>
        LET c == lastCommit
            pn == node_count(layers, c.parent)
            pv == value_count(layers, c.parent)
            pp == predicate_count(layers, c.parent)
            nn == Len(c.unresolved_nodes)
        IN  /\ \A k \in 1..nn : c.node_map[c.unresolved_nodes[k]] = pn + pv + k
            /\ \A k \in 1..Len(c.unresolved_predicates) :
                  c.predicate_map[c.unresolved_predicates[k]] = pp + k
            /\ \A k \in 1..Len(c.unresolved_values) :
                  c.value_map[c.unresolved_values[k]] = pn + pv + nn + k
            /\ \A s \in DOMAIN c.node_map :
                  \A id \in StackNodeIds(layers, c.parent) \cup StackValueIds(layers, c.parent) :
                      c.node_map[s] > id
            /\ \A s \in DOMAIN c.value_map :
                  /\ \A id \in StackNodeIds(layers, c.parent) \cup StackValueIds(layers, c.parent) :
                        c.value_map[s] > id
                  /\ \A n \in DOMAIN c.node_map : c.value_map[s] > c.node_map[n]
            /\ \A s \in DOMAIN c.predicate_map :
                  \A id \in StackPredicateIds(layers, c.parent) : c.predicate_map[s] > id

\* C10 witness: a child commit that adds a new node, a new predicate and a
\* new value over a parent that has nodes, predicates and values.
C10_Witness ==
    /\ lastCommit.status = "ok"
    /\ lastCommit.parent # 0
    /\ node_count(layers, lastCommit.parent) > 0
    /\ value_count(layers, lastCommit.parent) > 0
    /\ predicate_count(layers, lastCommit.parent) > 0
    /\ lastCommit.unresolved_nodes # <<>>
    /\ lastCommit.unresolved_predicates # <<>>
    /\ lastCommit.unresolved_values # <<>>

-----------------------------------------------------------------------------
(* Properties of the label store *)

\* the label a label file holds, as get_label reads it
LabelIn(name, file) == get_label([n \in LabelNames |-> file], name)

\* a successful result of set_label_option
IsSome(result) == result.kind = "Ok" /\ result.value # None

\* C2: set_label_option succeeds only if the stored label equals the expected
\* Label; when it differs the call returns None and the label file is left
\* as it was.
C2_SetLabelComparesExpected ==
    lastOp.op = "set" =>
        LET current == LabelIn(lastOp.name, lastOp.before)
        IN  /\ IsSome(lastOp.result) => current = Ok(lastOp.expected)
            /\ current # Ok(lastOp.expected) =>
                  /\ lastOp.result = Ok(None)
                  /\ labelFiles[lastOp.name] = lastOp.before

\* C2 witness: a set_label_option from a Label older than the stored one has
\* returned None and the file is as it was.
C2_Witness ==
    /\ lastOp.op = "set"
    /\ lastOp.result = Ok(None)
    /\ lastOp.before.exists
    /\ labelFiles[lastOp.name] = lastOp.before
    /\ LabelIn(lastOp.name, lastOp.before).value.value.version > lastOp.expected.value.version

\* C3: of set_label_option calls that hold the same expected Label, at most
\* one returns Some(new_label): no two clients have both succeeded from the
\* same expected Label.
C3_AtMostOneSetWins ==
    ~(won[1] # None /\ won[1] = won[2])

C5_CreateLabel ==
    lastOp.op = "create" =>
        IF lastOp.before.exists
        THEN /\ lastOp.result = Err("InvalidInput")
             /\ labelFiles[lastOp.name] = lastOp.before
        ELSE /\ lastOp.result = Ok(Label(lastOp.name, None, 0))
             /\ get_label(labelFiles, lastOp.name) = Ok(Some(Label(lastOp.name, None, 0)))

\* C5 witness: create_label on a label that exists with a layer and a
\* version above 0 has failed and the label is as it was.
C5_Witness ==
    /\ lastOp.op = "create"
    /\ lastOp.before.exists
    /\ lastOp.result.kind = "Err"
    /\ LabelIn(lastOp.name, lastOp.before).value.value.version > 0
    /\ LabelIn(lastOp.name, lastOp.before).value.value.layer # None
    /\ get_label(labelFiles, lastOp.name) = LabelIn(lastOp.name, lastOp.before)

\* C6: a label's layer field refers only to a layer whose commit has
\* completed.
C6_LabelOnlyToCompleteLayer ==
    \A name \in LabelNames :
        LET l == get_label(labelFiles, name)
        IN  (l.kind = "Ok" /\ l.value # None /\ l.value.value.layer # None) =>
                LayerComplete(l.value.value.layer.value)

-----------------------------------------------------------------------------
(* Properties of the builder's calls *)

\* what a committed layer holds, without the record of the calls made
LayerContent(l) ==
    [parent |-> l.parent,
     node_dictionary |-> l.node_dictionary,
     predicate_dictionary |-> l.predicate_dictionary,
     value_dictionary |-> l.value_dictionary,
     pos |-> l.pos, neg |-> l.neg]

\* the builder as it would be had only its add_* calls been made
WithoutRemovals(b) ==
    [b EXCEPT !.removals = <<>>, !.id_removals = <<>>, !.ignored = 0]

\* C11: on a builder created with new(), remove_string_triple and
\* remove_id_triple leave the removal vectors empty, and the base layer it
\* commits is the one committed without those calls.
C11_BaseBuilderIgnoresRemovals ==
    (builder # NoBuilder /\ builder.parent = 0) =>
        /\ builder.removals = <<>>
        /\ builder.id_removals = <<>>
        /\ LayerContent(Commit(layers, builder).layer)
              = LayerContent(Commit(layers, WithoutRemovals(builder)).layer)

\* C11 witness: a base builder on which a triple was added and removals
\* were called.
C11_Witness ==
    /\ builder # NoBuilder
    /\ builder.parent = 0
    /\ builder.ignored >= 2
    /\ builder.additions # <<>>

\* the elements of a set in an order that depends on the set only
RECURSIVE SetToSeq(_)
SetToSeq(S) ==
    IF S = {} THEN <<>>
    ELSE LET x == CHOOSE y \in S : TRUE IN <<x>> \o SetToSeq(S \ {x})

\* the builder given the same sets of additions and removals, each triple
\* once and in an order that depends on the sets only
SameSets(b) ==
    [b EXCEPT !.additions = SetToSeq(Range(b.additions)),
              !.id_additions = SetToSeq(Range(b.id_additions)),
              !.removals = SetToSeq(Range(b.removals)),
              !.id_removals = SetToSeq(Range(b.id_removals))]

Reverse(s) == [k \in 1..Len(s) |-> s[Len(s) + 1 - k]]

\* the builder given its triples in the opposite call order
Reversed(b) ==
    [b EXCEPT !.additions = Reverse(b.additions),
              !.id_additions = Reverse(b.id_additions),
              !.removals = Reverse(b.removals),
              !.id_removals = Reverse(b.id_removals)]

\* the dictionaries, id assignments and triples of a commit
CommitContent(c) ==
    [status |-> c.status,
     unresolved_nodes |-> c.unresolved_nodes,
     unresolved_predicates |-> c.unresolved_predicates,
     unresolved_values |-> c.unresolved_values,
     node_map |-> c.node_map, predicate_map |-> c.predicate_map,
     value_map |-> c.value_map,
     add_triples |-> c.add_triples, removals |-> c.removals]

\* C12: commit does not depend on the order in which triples were handed to
\* the builder nor on duplicates: a builder given the same sets of additions
\* and removals produces the same dictionaries, id assignments and triples.
C12_CommitOrderIndependent ==
    lastCommit.status # "none" =>
        /\ CommitContent(Commit(layers, SameSets(lastCommit.input)))
              = CommitContent(lastCommit)
        /\ CommitContent(Commit(layers, Reversed(lastCommit.input)))
              = CommitContent(lastCommit)
        /\ LayerContent(Commit(layers, SameSets(lastCommit.input)).layer)
              = LayerContent(Commit(layers, lastCommit.input).layer)

\* C12 witness: a commit of a builder given two different triples and one of
\* them twice, in an order other than the one the sets give.
C12_Witness ==
    /\ lastCommit.status = "ok"
    /\ Len(lastCommit.input.additions) = 3
    /\ Cardinality(Range(lastCommit.input.additions)) = 2
    /\ lastCommit.input.additions[1] # SameSets(lastCommit.input).additions[1]
    /\ Len(lastCommit.add_triples) = 2

-----------------------------------------------------------------------------
(* Properties of adjacency lists *)

\* the right values pushed for left m, in push order
RightsFor(pushed, m) ==
    LET of_m == SelectSeq(pushed, LAMBDA pr : pr[1] = m)
    IN  [k \in 1..Len(of_m) |-> of_m[k][2]]

\* every pair pushed has a left of at least 1
LeftsFromOne(pushed) == \A k \in 1..Len(pushed) : pushed[k][1] >= 1

\* the left value each entry of nums stands for: the lefts pushed, and
\* before each the lefts that were skipped
RECURSIVE EntryLefts(_, _)
EntryLefts(pushed, prev) ==
    IF pushed = <<>> THEN <<>>
    ELSE LET l == Head(pushed)[1]
         IN  [k \in 1..(l - prev - 1) |-> prev + k] \o <<l>> \o EntryLefts(Tail(pushed), l)

\* C16: in a finalized adjacency list built from strictly ascending pairs,
\* for every left m in 1..left_count(), get(m) is non-empty: the right
\* values pushed for m in push order, or the single entry 0 when no pair
\* was pushed for m.
C16_GetNonEmpty ==
    (adj.builder.status = "finalized" /\ LeftsFromOne(adj.pushed)) =>
        LET nums == adj.builder.nums
            bits == adj.builder.bits
        IN  /\ left_count(bits) = (IF adj.pushed = <<>> THEN 0
                                   ELSE adj.pushed[Len(adj.pushed)][1])
            /\ \A m \in 1..left_count(bits) :
                  /\ get(nums, bits, m) # <<>>
                  /\ get(nums, bits, m) = (IF RightsFor(adj.pushed, m) = <<>> THEN <<0>>
                                           ELSE RightsFor(adj.pushed, m))

\* C16 witness: a finalized list whose first pushed left is 2, with two
\* rights for left 2 and one for left 3.
C16_Witness ==
    /\ adj.builder.status = "finalized"
    /\ Len(adj.pushed) = 3
    /\ adj.pushed[1][1] = 2
    /\ adj.pushed[2][1] = 2
    /\ adj.pushed[3][1] = 3
    /\ get(adj.builder.nums, adj.builder.bits, 1) = <<0>>
    /\ Len(get(adj.builder.nums, adj.builder.bits, 2)) = 2

\* C17: AdjacencyList::iter() and adjacency_list_stream_pairs both yield the
\* pushed pairs in push order, entries with right = 0 skipped.
C17_ReadersYieldPushed ==
    (adj.builder.status = "finalized" /\ LeftsFromOne(adj.pushed)) =>
        LET expected == SelectSeq(adj.pushed, LAMBDA pr : pr[2] # 0)
        IN  /\ iter(adj.builder.nums, adj.builder.bits) = expected
            /\ adjacency_list_stream_pairs(adj.builder.bits, adj.builder.nums) = expected

\* C17 witness: a finalized list of three pairs with a skipped left between
\* them, read back by both readers.
C17_Witness ==
    /\ adj.builder.status = "finalized"
    /\ Len(adj.pushed) = 3
    /\ adj.pushed[1][1] = 1
    /\ adj.pushed[2][1] = 3
    /\ \A k \in 1..3 : adj.pushed[k][2] # 0
    /\ Len(adj.builder.nums) = 4
    /\ Len(iter(adj.builder.nums, adj.builder.bits)) = 3
    /\ Len(adjacency_list_stream_pairs(adj.builder.bits, adj.builder.nums)) = 3

\* C18: after any accepted pushes and finalize, bits and nums have the same
\* length and bit i is 1 exactly when position i holds the last entry for
\* its left value.
C18_BitsMarkLastEntries ==
    adj.builder.status = "finalized" =>
        LET nums == adj.builder.nums
            bits == adj.builder.bits
            lefts == EntryLefts(adj.pushed, 0)
        IN  /\ Len(bits) = Len(nums)
            /\ Len(lefts) = Len(nums)
            /\ \A i \in 1..Len(bits) :
                  bits[i] = 1 <=> (i = Len(lefts) \/ lefts[i + 1] # lefts[i])

\* C19: push rejects every pair that is not strictly greater than the pair
\* pushed before it in (left, right) order, and a rejected push writes
\* nothing to the bit array or the nums array.
C19_PushRejectsUnordered ==
    LET before == adj.last.before
        pushHappened == adj.pushed # <<>> \/ adj.builder.status = "panic"
        greater == \/ adj.last.left > before.last_left
                   \/ (adj.last.left = before.last_left /\ adj.last.right > before.last_right)
    IN  /\ (pushHappened /\ before.nums # <<>> /\ ~greater) => adj.builder.status = "panic"
        /\ adj.builder.status = "panic" =>
              /\ adj.builder.bits = before.bits
              /\ adj.builder.nums = before.nums

\* C19 witness: after accepted pushes, a push of a pair with the same left
\* and a smaller right was rejected.
C19_Witness ==
    /\ adj.builder.status = "panic"
    /\ Len(adj.pushed) = 2
    /\ adj.last.left = adj.last.before.last_left
    /\ adj.last.right < adj.last.before.last_right
    /\ adj.builder.nums = adj.last.before.nums


-----------------------------------------------------------------------------
(* Properties of the base layer's forward files *)

\* some subject id below the largest one added has no triple
HasHole(added) ==
    \E s \in 1..MaxSubject :
        /\ \A k \in 1..Len(added) : added[k].subject # s
        /\ \E k \in 1..Len(added) : added[k].subject > s

\* some subject has two predicates and some (subject, predicate) two objects
HasSeveral(added) ==
    /\ \E i, k \in 1..Len(added) :
          added[i].subject = added[k].subject /\ added[i].predicate # added[k].predicate
    /\ \E i, k \in 1..Len(added) :
          /\ added[i].subject = added[k].subject
          /\ added[i].predicate = added[k].predicate
          /\ added[i].object # added[k].object

\* C13: base layer round trip. Once the strictly ascending triples added in
\* phase 2 are finalized, triples() of the layer over the s_p and sp_o lists
\* yields exactly the triples added, in the order they were added.
C13_BaseRoundTrip ==
    base.builder.status = "finalized" =>
        /\ IsStrictlyAscending(base.added)
        /\ triples(base.builder.s_p, base.builder.sp_o) = base.added

C13_Witness ==
    /\ base.builder.status = "finalized"
    /\ Len(base.added) = MaxTriples
    /\ HasHole(base.added)
    /\ triples(base.builder.s_p, base.builder.sp_o) = base.added

\* C14: the stream opened over the layer's own finalized s_p and sp_o files
\* does not fail, and when it has ended it has yielded exactly the triples
\* added, in (subject, predicate, object) order, also when subjects have no
\* triples and when subjects have several predicates and predicates several
\* objects.
C14_StreamYieldsAdded ==
    (join.stream.open /\ join.cut = 0) =>
        /\ join.stream.result # "UnexpectedEof"
        /\ \A k \in 1..Len(join.stream.out) :
              k <= Len(base.added) /\ join.stream.out[k] = base.added[k]
        /\ join.stream.result = "end" => join.stream.out = base.added

C14_Witness ==
    /\ join.stream.open
    /\ join.cut = 0
    /\ join.stream.result = "end"
    /\ HasHole(base.added)
    /\ HasSeveral(base.added)
    /\ join.stream.out = base.added

\* the sp_o stream has an entry whose sp is greater than the last sp seen,
\* and the s_p stream has no entry left
SpAheadOfExhaustedSP(j) ==
    /\ j.sp_o_stream # <<>>
    /\ Head(j.sp_o_stream)[1] > j.last_sp
    /\ j.s_p_stream = <<>>

\* C15: a poll of the stream ends in the UnexpectedEof error exactly when,
\* at that poll, the sp_o stream has an entry with sp greater than the last
\* observed sp while the s_p stream is exhausted; every other poll yields an
\* item or the end of the stream.
C15_EofExactly ==
    [][(join.stream.open /\ join'.stream.polls = join.stream.polls + 1) =>
          /\ (join'.stream.result = "UnexpectedEof") <=> SpAheadOfExhaustedSP(join.stream)
          /\ join'.stream.result \in {"item", "end", "UnexpectedEof"}]_vars

C15_Witness ==
    /\ join.stream.open
    /\ join.stream.result = "UnexpectedEof"
    /\ join.stream.out # <<>>
    /\ SpAheadOfExhaustedSP(join.stream)

-----------------------------------------------------------------------------
(* Properties of PFC dictionaries *)

\* C20: PFC dictionary round trip. In a dictionary built from strings added
\* in strictly ascending order, whatever their number, every string added has
\* an id, and get of that id is the string.
C20_PfcRoundTrip ==
    dict.builder.status = "finalized" =>
        \A k \in 1..Len(dict.added) :
            LET d == DictOf(dict.builder)
                found == PfcDict_id(d, dict.added[k])
            IN  /\ found # None
                /\ PfcDict_get(d, found.value) = Some(dict.added[k])

\* C21: id of a string that was not added is None, whether the string is
\* smaller than the first entry, greater than the last, between two entries,
\* or looked up in an empty dictionary.
C21_IdOfAbsentIsNone ==
    dict.builder.status = "finalized" =>
        \A s \in DictStrings \ Range(dict.added) :
            PfcDict_id(DictOf(dict.builder), s) = None

\* C22: strings() of a dictionary yields len() strings, the same as get(0),
\* get(1), ..., get(len() - 1), and these are the strings added in the order
\* added, for every number of strings, 0 and multiples of 8 included.
C22_StringsEqualsGets ==
    dict.builder.status = "finalized" =>
        LET d == DictOf(dict.builder)
            strings == PfcDict_strings(d)
        IN  /\ Len(strings) = PfcDict_len(d)
            /\ \A i \in 0..(PfcDict_len(d) - 1) :
                  i < Len(strings) /\ PfcDict_get(d, i) = Some(strings[i + 1])
            /\ strings = dict.added

\* C23: dict_reader_to_stream over a finalized blocks file yields exactly the
\* strings added, in order, and then ends: it does not stop before the last
\* string and yields nothing from the padding and the count.
C23_StreamYieldsAdded ==
    dict.builder.status = "finalized" =>
        dict_reader_to_stream(dict.builder.blocks) = dict.added

-----------------------------------------------------------------------------
(* Properties of the base layer builder *)

IsAscendingStrings(strings) ==
    \A i \in 1..(Len(strings) - 1) : StrLess(strings[i], strings[i + 1])

\* the strings a dictionary builder has written, read back from its files
WrittenStrings(b) ==
    IF b.count = 0 THEN <<>>
    ELSE PfcDict_strings(DictOf(IF b.status = "finalized" THEN b
                                ELSE PfcDictFileBuilder_finalize(b)))

\* C24: in phase 1 a string that is not strictly greater than the last string
\* of its kind is rejected with a panic and is not written, so that the
\* strings of every dictionary, finalized or not, are strictly ascending.
C24_Phase1RejectsUnordered ==
    /\ \A k \in Kinds :
          /\ IsAscendingStrings(WrittenStrings(phase1.builders[k]))
          /\ Len(WrittenStrings(phase1.builders[k])) = phase1.builders[k].count
    /\ phase1.rejection # NoRejection =>
          /\ phase1.status = "panic"
          /\ phase1.builders[phase1.rejection.kind] = phase1.rejection.before

C24_Witness ==
    /\ phase1.rejection # NoRejection
    /\ phase1.status = "panic"
    /\ phase1.rejection.before.count = 2
    /\ phase1.rejection.string = phase1.rejection.before.last
    /\ WrittenStrings(phase1.builders[phase1.rejection.kind]) = <<StrA, StrAA>>

\* the builder as it was before its last accepted triple or, after a
\* rejection, as it was before the rejected one: the triples added, replayed
RECURSIVE Replay(_)
Replay(added) ==
    IF added = <<>> THEN NewTripleFileBuilder
    ELSE TripleFileAdd(Replay(SubSeq(added, 1, Len(added) - 1)), added[Len(added)])

-----------------------------------------------------------------------------
(* Properties of the base layer builder from from_files to finalize *)

\* where the builder stands: 1 while dictionaries are written, 2 while
\* triples are written, 3 once finalized, 4 once a call has panicked
LifePhase ==
    CASE phase1.status = "panic" -> 4
      [] phase1.status = "phase1" -> 1
      [] base.builder.status = "building" -> 2
      [] base.builder.status = "finalized" -> 3
      [] OTHER -> 4

\* the adjacency list files phase 2 writes
TripleFiles == <<base.builder.s_p, base.builder.sp_o>>

EmptyBaseLayerBuilt ==
    /\ LifePhase = 3
    /\ \A k \in Kinds : phase1.builders[k].count = 0
    /\ base.added = <<>>

\* C27: the files of a base layer built from no string and no triple hold
\* the 8 bytes PfcDict::parse reads the count from and load as dictionaries
\* of length 0, so that node_and_value_count and
\* predicate_count are 0, and as adjacency lists with no left and no triple
C27_EmptyBaseLayer ==
    EmptyBaseLayerBuilt =>
        /\ \A k \in Kinds : Len(phase1.builders[k].blocks) >= 8
        /\ PfcDict_len(DictOf(phase1.builders["node"]))
              + PfcDict_len(DictOf(phase1.builders["value"])) = 0
        /\ PfcDict_len(DictOf(phase1.builders["predicate"])) = 0
        /\ left_count(base.builder.s_p.bits) = 0
        /\ left_count(base.builder.sp_o.bits) = 0
        /\ triples(base.builder.s_p, base.builder.sp_o) = <<>>

\* the empty base layer, finalized
C27_Witness ==
    /\ EmptyBaseLayerBuilt
    /\ base.builder.status = "finalized"
    /\ base.builder.s_p.nums = <<>>

-----------------------------------------------------------------------------
(* Properties of the object index of a base layer *)

\* the o_ps list of the finalized layer
LayerOPs == build_o_ps(base.builder.sp_o)

\* the (subject, predicate) pairs of the added triples with object o, in the
\* order the triples were added
AddedPairsOf(o) ==
    LET ts == SelectSeq(base.added, LAMBDA t : t.object = o)
    IN  [k \in 1..Len(ts) |-> <<ts[k].subject, ts[k].predicate>>]

\* C28: on a finalized base layer lookup_object(o) yields the (subject,
\* predicate) pairs of the added triples with object o, ascending, and
\* objects() visits the objects that have a triple in ascending order
C28_LookupObject ==
    base.builder.status = "finalized" =>
        /\ LayerOPs.status = "finalized"
        /\ \A o \in 0..(MaxObject + 1) :
              lookup_object(base.builder.s_p, LayerOPs, o) = AddedPairsOf(o)
        /\ LET os == objects(base.builder.s_p, LayerOPs)
           IN  /\ Range(os) = {t.object : t \in Range(base.added)}
               /\ \A i \in 1..(Len(os) - 1) : os[i] < os[i + 1]

\* a finalized layer in which two pairs point at the same object and the
\* objects were not added in ascending order
C28_Witness ==
    /\ base.builder.status = "finalized"
    /\ \E i, j \in 1..Len(base.added) :
          /\ i < j
          /\ base.added[i].object = base.added[j].object
          /\ base.added[i].subject # base.added[j].subject
    /\ \E i \in 1..(Len(base.added) - 1) :
          base.added[i].object > base.added[i + 1].object

-----------------------------------------------------------------------------
(* Properties of the directory layer store *)

\* C29: every name create_directory has returned is among the names
\* directories() returns, and directory_exists is true for it
C29_DirectoriesListsCreated ==
    \A name \in disk.created :
        /\ directories(disk).kind = "Ok"
        /\ name \in directories(disk).value
        /\ directory_exists(disk, name)

\* the half of C29 that is about directory_exists
C29_CreatedExists ==
    \A name \in disk.created : directory_exists(disk, name)

\* directories() fails in every store that holds a prefix directory
C29_DirectoriesFails ==
    disk.dirs # {} => directories(disk).kind = "Err"

\* the files of a store that lie in the directory of layer n
FilesOfLayer(files, n) ==
    {f \in files : Len(f.path) > 2 /\ SubSeq(f.path, 1, 2) = layer_path(n)}

\* C30: after import_layers every file that is new or rewritten is a file
\* entry of the pack under a wanted layer id, lying under
\* <first 3 characters>/<layer id>/ with the data of the entry; every new
\* directory is the prefix directory of a wanted layer or lies under it in
\* the directory of that layer; nothing is removed, and the directories of
\* the layers that are not wanted are as they were
C30_ImportOnlyWanted ==
    disk.last.op = "import_layers" =>
        LET wanted == {name_to_string(n) : n \in disk.last.layer_ids}
        IN  /\ \A f \in disk.files \ disk.last.files :
                  \E e \in disk.last.pack :
                      /\ ~e.dir
                      /\ e.path[1] \in wanted
                      /\ f.path = <<SubSeq(e.path[1], 1, PREFIX_DIR_SIZE)>> \o e.path
                      /\ f.data = e.data
            /\ \A d \in disk.dirs \ disk.last.dirs :
                  \E id \in wanted :
                      /\ d[1] = SubSeq(id, 1, PREFIX_DIR_SIZE)
                      /\ Len(d) > 1 => d[2] = id
            /\ disk.last.dirs \subseteq disk.dirs
            /\ {f.path : f \in disk.last.files} \subseteq {f.path : f \in disk.files}
            /\ \A n \in LayerNames \ disk.last.layer_ids :
                  /\ FilesOfLayer(disk.files, n) = FilesOfLayer(disk.last.files, n)
                  /\ (layer_path(n) \in disk.dirs) = (layer_path(n) \in disk.last.dirs)

\* an import that unpacked a file of a wanted layer from a pack that also
\* holds other entries, into a store that held another layer with its file
C30_Witness ==
    /\ disk.last.op = "import_layers"
    /\ \E n \in disk.last.layer_ids, m \in LayerNames \ disk.last.layer_ids :
          /\ FilesOfLayer(disk.files, n) # FilesOfLayer(disk.last.files, n)
          /\ FilesOfLayer(disk.last.files, m) # {}
          /\ \E e \in disk.last.pack : e.path[1] # name_to_string(n)

-----------------------------------------------------------------------------
(* Properties of the adjacency list builder and of the positions of a list *)

\* C31: for pushes with lefts of 1 or more, after every accepted push the
\* bit array is one shorter than nums; the bit of the entry that was last
\* before the push is written by the push, 0 when the left is repeated and
\* 1 otherwise, and the bit of the last entry is written by finalize
C31_BitsLagByOne ==
    [][ LET b == adj.builder
            c == adj'.builder
        IN  (b.status = "building" /\ LeftsFromOne(adj'.pushed) /\ adj' # adj) =>
              /\ c.status = "building" =>
                    /\ Len(c.bits) = Len(c.nums) - 1
                    /\ b.nums # <<>> =>
                          SubSeq(c.bits, 1, Len(b.nums))
                              = Append(b.bits, IF c.last_left = b.last_left THEN 0 ELSE 1)
              /\ (c.status = "finalized" /\ b.nums # <<>>) =>
                    /\ c.bits = Append(b.bits, 1)
                    /\ c.nums = b.nums
                    /\ Len(c.bits) = Len(c.nums) ]_vars

\* three accepted pushes, the second with the left of the first and the
\* third with a greater left, then finalize
C31_Witness ==
    /\ adj.builder.status = "finalized"
    /\ Len(adj.pushed) = 3
    /\ adj.pushed[1][1] >= 1
    /\ adj.pushed[2][1] = adj.pushed[1][1]
    /\ adj.pushed[3][1] > adj.pushed[2][1] + 1
    /\ Len(adj.builder.bits) = Len(adj.builder.nums)

\* the greatest left among the pairs pushed, 0 when there is none
GreatestLeft(pushed) ==
    IF pushed = <<>> THEN 0
    ELSE CHOOSE l \in {pushed[k][1] : k \in 1..Len(pushed)} :
             \A k \in 1..Len(pushed) : pushed[k][1] <= l

\* C32: finalize appends a 1 bit exactly when a pair was pushed; the
\* finalized list of no pair has left_count 0, and the finalized list of
\* pairs with lefts of 1 or more has the greatest left pushed as left_count,
\* with entries under every left up to it
C32_FinalizeClosesLastLeft ==
    [][ LET b == adj.builder
            c == adj'.builder
        IN  (b.status = "building" /\ c.status = "finalized") =>
              /\ c.bits = (IF adj.pushed # <<>> THEN Append(b.bits, 1) ELSE b.bits)
              /\ adj.pushed = <<>> => left_count(c.bits) = 0
              /\ LeftsFromOne(adj.pushed) =>
                    /\ left_count(c.bits) = GreatestLeft(adj.pushed)
                    /\ \A m \in 1..GreatestLeft(adj.pushed) :
                          get(c.nums, c.bits, m) # <<>> ]_vars

\* a finalized list of two pairs with a left between them that has no pair
C32_Witness ==
    /\ adj.builder.status = "finalized"
    /\ Len(adj.pushed) = 2
    /\ adj.pushed[1][1] = 1
    /\ adj.pushed[2][1] = 3
    /\ left_count(adj.builder.bits) = 3
    /\ get(adj.builder.nums, adj.builder.bits, 2) = <<0>>

\* the entries a list of the pushed pairs holds: before each pair one
\* (m, 0) for every left m passed over since the pair before it
RECURSIVE ExpectedEntries(_, _)
ExpectedEntries(pushed, prev) ==
    IF pushed = <<>> THEN <<>>
    ELSE LET l == Head(pushed)[1]
         IN  [k \in 1..(l - prev - 1) |-> <<prev + k, 0>>]
             \o <<Head(pushed)>> \o ExpectedEntries(Tail(pushed), l)

\* C33: in a finalized list of pairs with lefts of 1 or more, pair_at_pos(p)
\* is (left_at_pos(p), num_at_pos(p)) at every position p below
\* right_count(), and the positions in order hold the pushed pairs with one
\* (m, 0) for each left m up to the greatest that was given no pair, the
\* lefts never decreasing
C33_PairAtPos ==
    (adj.builder.status = "finalized" /\ LeftsFromOne(adj.pushed)) =>
        LET nums == adj.builder.nums
            bits == adj.builder.bits
            pairs == [k \in 1..right_count(bits) |-> pair_at_pos(nums, bits, k - 1)]
        IN  /\ right_count(bits) = Len(nums)
            /\ \A p \in 0..(right_count(bits) - 1) :
                  pair_at_pos(nums, bits, p) = <<left_at_pos(bits, p), num_at_pos(nums, p)>>
            /\ pairs = ExpectedEntries(adj.pushed, 0)
            /\ \A k \in 1..(Len(pairs) - 1) : pairs[k][1] <= pairs[k + 1][1]
            /\ \A m \in 1..GreatestLeft(adj.pushed) :
                  RightsFor(adj.pushed, m) = <<>> =>
                      Cardinality({k \in 1..Len(pairs) : pairs[k] = <<m, 0>>}) = 1

\* a finalized list whose first left is 2 and whose last left is repeated
C33_Witness ==
    /\ adj.builder.status = "finalized"
    /\ Len(adj.pushed) = 3
    /\ adj.pushed[1][1] = 2
    /\ adj.pushed[2][1] = 3
    /\ adj.pushed[3][1] = 3
    /\ pair_at_pos(adj.builder.nums, adj.builder.bits, 0) = <<1, 0>>
    /\ right_count(adj.builder.bits) = 4

-----------------------------------------------------------------------------
(* Properties of the join of the sp_o and s_p streams *)

\* the entries of the s_p stream and of the sp_o stream as the join was
\* opened on them
OpenedSP(jn) ==
    LET f == CutFiles(base.builder.s_p, Len(base.builder.s_p.nums) - jn.cut)
    IN  adjacency_list_stream_pairs(f.bits, f.nums)

OpenedSpO(jn) ==
    LET f == CutFiles(base.builder.sp_o, Len(base.builder.sp_o.nums) - jn.cut_o)
    IN  adjacency_list_stream_pairs(f.bits, f.nums)

\* the number of s_p entries the join has consumed
ConsumedSP(jn) == Len(OpenedSP(jn)) - Len(jn.stream.s_p_stream)

\* the number of distinct sp values among the sp_o entries emitted
DistinctSpEmitted(jn) ==
    Cardinality({OpenedSpO(jn)[i][1] : i \in 1..Len(jn.stream.out)})

\* C34: a poll that emits a triple takes one s_p entry when the sp of the
\* sp_o entry is greater than last_sp, by however much, and none otherwise,
\* when it emits the remembered (s, p); last_sp never decreases, and the
\* s_p entries consumed are as many as the distinct sp values emitted
C34_AdvanceOncePerSp ==
    [][ LET j == join.stream
            k == join'.stream
        IN  (j.open /\ k.polls = j.polls + 1) =>
              /\ k.last_sp >= j.last_sp
              /\ ConsumedSP(join') = DistinctSpEmitted(join')
              /\ k.result = "item" =>
                    LET sp == Head(j.sp_o_stream)[1]
                        o == Head(j.sp_o_stream)[2]
                    IN  IF sp > j.last_sp
                        THEN /\ k.s_p_stream = Tail(j.s_p_stream)
                             /\ k.last_sp = sp
                             /\ k.last_s_p = Head(j.s_p_stream)
                             /\ k.out = Append(j.out, IdTriple(Head(j.s_p_stream)[1],
                                                               Head(j.s_p_stream)[2], o))
                        ELSE /\ k.s_p_stream = j.s_p_stream
                             /\ k.last_sp = j.last_sp
                             /\ k.last_s_p = j.last_s_p
                             /\ k.out = Append(j.out, IdTriple(j.last_s_p[1],
                                                               j.last_s_p[2], o))
              /\ k.result # "item" => k.s_p_stream = j.s_p_stream ]_vars

\* a join that has emitted for an sp that rose by more than one, and has
\* reused a remembered (s, p)
C34_Witness ==
    /\ join.stream.open
    /\ join.stream.result = "end"
    /\ join.cut = 0 /\ join.cut_o = 0
    /\ \E i \in 1..(Len(OpenedSpO(join)) - 1) :
          OpenedSpO(join)[i + 1][1] > OpenedSpO(join)[i][1] + 1
    /\ ConsumedSP(join) < Len(join.stream.out)

\* C37: a poll that is Pending or fails with UnexpectedEof leaves both
\* streams, last_s_p, last_sp and what was emitted as they were; only a poll
\* that emits a triple takes an entry off a stream; a poll after
\* UnexpectedEof that is not Pending fails in the same way; and a stream over
\* the layer's own files still ends having emitted every triple
C37_FailedPollConsumesNothing ==
    [][ LET j == join.stream
            k == join'.stream
        IN  (j.open /\ k.polls = j.polls + 1) =>
              /\ k.result \in {"pending", "UnexpectedEof"} =>
                    /\ k.sp_o_stream = j.sp_o_stream
                    /\ k.s_p_stream = j.s_p_stream
                    /\ k.last_s_p = j.last_s_p
                    /\ k.last_sp = j.last_sp
                    /\ k.out = j.out
              /\ (k.sp_o_stream # j.sp_o_stream \/ k.s_p_stream # j.s_p_stream) =>
                    k.result = "item"
              /\ (j.result = "UnexpectedEof" /\ k.result # "pending") =>
                    k.result = "UnexpectedEof"
              /\ (k.result = "end" /\ join.cut = 0 /\ join.cut_o = 0) =>
                    k.out = base.added ]_vars

\* a stream that emitted triples and then failed, polled at least two more
\* times than it took to get there
C37_Witness ==
    /\ join.stream.open
    /\ join.stream.result = "UnexpectedEof"
    /\ join.stream.out # <<>>
    /\ join.stream.polls >= Len(join.stream.out) + 3

\* a stream over the layer's own files that was pending on the way and
\* ended with all the triples
C37_PendingThenAll ==
    /\ join.stream.open
    /\ join.stream.result = "end"
    /\ join.cut = 0 /\ join.cut_o = 0
    /\ Len(join.stream.out) = MaxJoinTriples
    /\ join.stream.polls > Len(join.stream.out) + 1

\* C38: a poll that finds the sp_o stream at its end ends the join without
\* an error, whatever is left of the s_p stream, which stays as it is; the
\* join ends in no other case, and every triple emitted has the (s, p) of an
\* s_p entry that was consumed
C38_EndsWithSpO ==
    [][ LET j == join.stream
            k == join'.stream
        IN  (j.open /\ k.polls = j.polls + 1) =>
              /\ (j.sp_o_stream = <<>> /\ k.result # "pending") =>
                    /\ k.result = "end"
                    /\ k.out = j.out
                    /\ k.s_p_stream = j.s_p_stream
              /\ k.result = "end" => j.sp_o_stream = <<>>
              /\ Len(k.out) <= Len(OpenedSpO(join'))
              /\ \A i \in 1..Len(k.out) :
                    \E n \in 1..ConsumedSP(join') :
                        OpenedSP(join')[n] = <<k.out[i].subject, k.out[i].predicate>> ]_vars

\* a join that has ended after emitting triples while the s_p stream still
\* held an entry
C38_Witness ==
    /\ join.stream.open
    /\ join.stream.result = "end"
    /\ join.stream.s_p_stream # <<>>
    /\ join.stream.out # <<>>
    /\ join.cut_o > 0

-----------------------------------------------------------------------------
(* Properties of the finalizing chains *)

\* the entries of a nums array that are not the 0 of a hole
RealEntries(nums) == Len(SelectSeq(nums, LAMBDA x : x # 0))

\* C35: in into_phase2 a dictionary file is read only once the dictionary
\* builders are finalized, what is read is the finalized file, and the counts
\* parsed are the numbers of strings added; in the finalize of phase 2
\* build_indexes runs on the finalized sp_o files and indexes every triple;
\* in the finalize of an adjacency list the bit index is built from the bit
\* array that has its last bit and is as long as the finalized nums
C35_FinalizeObservesWrites ==
    /\ fin.handler # "panic"
    /\ fin.handler = "into_phase2" =>
          /\ \A k \in Kinds :
                fin.maps[k].read =>
                    /\ fin.dicts[k].status = "finalized"
                    /\ fin.maps[k].data = fin.dicts[k].blocks
          /\ fin.pc = 4 => \A k \in Kinds : fin.counts[k] = fin.dicts[k].count
    /\ (fin.handler = "phase2_finalize" /\ fin.pc = 2) =>
          /\ fin.triples.status = "finalized"
          /\ fin.triples.sp_o.status = "finalized"
          /\ fin.o_ps.status = "finalized"
          /\ RealEntries(fin.o_ps.nums) = RealEntries(fin.triples.sp_o.nums)
    /\ (fin.handler = "adjacency_finalize" /\ fin.pc = 2) =>
          /\ fin.list.status = "finalized"
          /\ fin.indexed = fin.list.bits
          /\ Len(fin.indexed) = Len(fin.list.nums)
          /\ fin.list.nums # <<>> => fin.indexed[Len(fin.indexed)] = 1

\* into_phase2 has run to its end over dictionaries that hold strings
C35_Witness ==
    /\ fin.handler = "into_phase2"
    /\ fin.pc = 4
    /\ fin.counts["node"] = 2
    /\ fin.counts["predicate"] = 1
    /\ \A k \in Kinds : fin.maps[k].read

\* the finalize of phase 2 has built the object index of two triples
C35_IndexesBuilt ==
    /\ fin.handler = "phase2_finalize"
    /\ fin.pc = 2
    /\ RealEntries(fin.o_ps.nums) = 2

\* the entries of an archive that belong to the layer directory of id
EntriesOfLayer(entries, id) ==
    {k \in 1..Len(entries) : entries[k].path[1] = name_to_string(id)}

\* the positions of an archive that hold a parent.hex
ParentEntries(entries) ==
    {k \in 1..Len(entries) : file_name(entries[k].path) = ParentHex}

\* an archive whose top-level names are all layer names and whose
\* parent.hex files all hold a layer name
WellFormedPack(entries) ==
    /\ \A k \in 1..Len(entries) : string_to_name(entries[k].path[1]).kind = "Ok"
    /\ \A k \in ParentEntries(entries) : read_parent_id(entries[k].data).kind = "Ok"

\* C36: the map of pack_layer_parents on a well-formed archive has one
\* key for each layer directory of the archive, with Some(parent) exactly
\* for the layers that have a parent.hex entry, the parent being the name
\* its 40 hex bytes spell, and None for the others; the same entries in
\* any other order give the same map
C36_PackLayerParents ==
    (disk.last.op = "pack_layer_parents" /\ WellFormedPack(disk.last.entries)) =>
        LET entries == disk.last.entries
            ids == {string_to_name(entries[k].path[1]).value : k \in 1..Len(entries)}
        IN  /\ disk.last.parents.kind = "Ok"
            /\ {e[1] : e \in disk.last.parents.value} = ids
            /\ Cardinality(disk.last.parents.value) = Cardinality(ids)
            /\ \A id \in ids :
                  LET parents == EntriesOfLayer(entries, id) \cap ParentEntries(entries)
                  IN  IF parents = {}
                      THEN <<id, None>> \in disk.last.parents.value
                      ELSE \E k \in parents :
                              /\ entries[k].data = name_to_string(
                                     read_parent_id(entries[k].data).value)
                              /\ <<id, Some(read_parent_id(entries[k].data).value)>>
                                     \in disk.last.parents.value
            /\ \A other \in EntrySequences :
                  Range(other) = Range(entries) =>
                      pack_layer_parents(other) = disk.last.parents

\* an archive of three entries of one layer with parent.hex first, and
\* the map holds the parent
C36_Witness ==
    /\ disk.last.op = "pack_layer_parents"
    /\ Len(disk.last.entries) = 3
    /\ \E pr \in LayerNames \X LayerNames :
          /\ pr[1] # pr[2]
          /\ Range(disk.last.entries) = LayerEntries(pr[1], pr[2])
          /\ file_name(disk.last.entries[1].path) = ParentHex
          /\ disk.last.parents = Ok({<<pr[1], Some(pr[2])>>})

\* parent.hex in the middle and at the end, a layer without parent.hex
C36_MiddleLastNone ==
    /\ disk.last.op = "pack_layer_parents"
    /\ Len(disk.last.entries) = 3
    /\ \E pr \in LayerNames \X LayerNames :
          /\ pr[1] # pr[2]
          /\ file_name(disk.last.entries[2].path) = ParentHex
          /\ EntriesOfLayer(disk.last.entries, pr[1]) = {1, 2}
          /\ EntriesOfLayer(disk.last.entries, pr[2]) = {3}
          /\ disk.last.parents = Ok({<<pr[1], Some(pr[2])>>, <<pr[2], None>>})

\* an archive with a top-level name that is no layer name, or with a
\* parent.hex cut short, gives no map
C36_BrokenPackFails ==
    (disk.last.op = "pack_layer_parents" /\ ~WellFormedPack(disk.last.entries)) =>
        disk.last.parents.kind = "Err"

\* the string triples a child builder both added and removed of which the
\* parent does not know every string
AddedAndRemovedUnknown(ls, b) ==
    {t \in Range(b.additions) \cap Range(b.removals) :
        ~IsFullyResolved(string_triple_to_partially_resolved(ls, b.parent, t))}

\* C39: in a child builder a string triple with a string the parent does
\* not know that is both added and removed keeps its addition: the removal
\* adds nothing to the removals of the commit, the committed layer shows the
\* triple, and the builder is the same whichever of the two calls came
\* first
C39_RemovalKeepsPendingAddition ==
    /\ (builder # NoBuilder /\ builder.parent # 0) =>
          \A t \in StringTriples :
             /\ remove_string_triple(add_string_triple(builder, t), t)
                   = add_string_triple(remove_string_triple(builder, t), t)
             /\ t \in Range(remove_string_triple(add_string_triple(builder, t), t).additions)
    /\ (lastCommit.status # "none" /\ lastCommit.parent # 0) =>
          \A t \in AddedAndRemovedUnknown(layers, lastCommit.input) :
             /\ lastCommit.removals
                   = CommitRemovals(layers,
                        [lastCommit.input EXCEPT
                            !.removals = SelectSeq(@, LAMBDA r : r # t)])
             /\ lastCommit.status = "ok" =>
                   /\ string_triple_exists(layers, Len(layers), t)
                   /\ ~string_triple_exists(layers, lastCommit.parent, t)

\* a child of a layer that holds a triple has committed a triple it both
\* added and removed, of which the parent knows some strings and not all
C39_Witness ==
    /\ lastCommit.status = "ok"
    /\ lastCommit.parent # 0
    /\ layers[lastCommit.parent].pos # <<>>
    /\ \E t \in AddedAndRemovedUnknown(layers, lastCommit.input) :
          /\ string_triple_to_partially_resolved(layers, lastCommit.parent, t).subject.resolved
          /\ string_triple_exists(layers, Len(layers), t)

====
